---- MODULE Spec2Model ----
(***************************************************************************)
(* KrakenBuster: the scan-execution engine.                                *)
(*   - output.py         : the line classifier (parse_status_code, ...)    *)
(*   - scanners/base.py  : the process runner (BaseScanner.run_scan/cancel)*)
(*   - screens/scanning.py: the scan coordinator (ScanningScreen)          *)
(* All coroutines run on one asyncio event loop: a step of the model is    *)
(* the code a task runs between two suspension points, or one handler.     *)
(***************************************************************************)
EXTENDS Integers, Sequences, FiniteSets, TLC

(***************************************************************************)
(* Bounds of the model.                                                    *)
(***************************************************************************)
\* the output lines the child processes of a session write, all together
MaxOut == 2
\* the error-stream lines the child processes of a session write, all together
MaxErr == 1
\* the times the cancel action is run
MaxCancels == 2

(***************************************************************************)
(* Text.  A line of tool output is a sequence of one-character strings.    *)
(***************************************************************************)
Digits == <<"0", "1", "2", "3", "4", "5", "6", "7", "8", "9">>

IsDigit(c) == \E d \in 1..10 : Digits[d] = c

DigitVal(c) == (CHOOSE d \in 1..10 : Digits[d] = c) - 1

IsSpace(c) == c \in {" ", "\t", "\n", "\r"}

IsAlpha(c) ==
    c \in {"a", "b", "c", "d", "e", "f", "g", "h", "i", "j", "k", "l", "m",
           "n", "o", "p", "q", "r", "s", "t", "u", "v", "w", "x", "y", "z",
           "A", "B", "C", "D", "E", "F", "G", "H", "I", "J", "K", "L", "M",
           "N", "O", "P", "Q", "R", "S", "T", "U", "V", "W", "X", "Y", "Z"}

\* \w of the re module
IsWord(c) == IsAlpha(c) \/ IsDigit(c) \/ c = "_"

WordAt(l, i) == i >= 1 /\ i <= Len(l) /\ IsWord(l[i])

\* \b between positions i-1 and i
Boundary(l, i) == WordAt(l, i - 1) # WordAt(l, i)

DigitAt(l, i) == i >= 1 /\ i <= Len(l) /\ IsDigit(l[i])

SpaceAt(l, i) == i >= 1 /\ i <= Len(l) /\ IsSpace(l[i])

\* a literal at position i
LitAt(l, i, lit) ==
    /\ i >= 1
    /\ i + Len(lit) - 1 <= Len(l)
    /\ \A k \in 1..Len(lit) : l[i + k - 1] = lit[k]

\* (\d{3}) at position i
Digits3At(l, i) == DigitAt(l, i) /\ DigitAt(l, i + 1) /\ DigitAt(l, i + 2)

\* the first position >= i that holds no whitespace: where a greedy \s* ends
RECURSIVE SkipSpaces(_, _)
SkipSpaces(l, i) == IF SpaceAt(l, i) THEN SkipSpaces(l, i + 1) ELSE i

\* the first position >= i that holds no digit: where a greedy \d+ ends
RECURSIVE SkipDigits(_, _)
SkipDigits(l, i) == IF DigitAt(l, i) THEN SkipDigits(l, i + 1) ELSE i

\* int() of the digits l[i..j-1]
RECURSIVE IntOf(_, _, _)
IntOf(l, i, j) ==
    IF j <= i THEN 0 ELSE 10 * IntOf(l, i, j - 1) + DigitVal(l[j - 1])

\* str.rstrip(): trailing whitespace removed
RECURSIVE rstrip(_)
rstrip(l) ==
    IF Len(l) > 0 /\ IsSpace(l[Len(l)]) THEN rstrip(SubSeq(l, 1, Len(l) - 1)) ELSE l

\* str.strip()
RECURSIVE lstrip(_)
lstrip(l) == IF Len(l) > 0 /\ IsSpace(l[1]) THEN lstrip(Tail(l)) ELSE l

strip(l) == lstrip(rstrip(l))

(***************************************************************************)
(* output.py: parse_status_code.  Absent (Python None) is NoCode.          *)
(***************************************************************************)
NoCode == 0 - 1

NPatterns == 9

\* Where group(1) starts when pattern p matches at start position i, else 0.
StatusGroupAt(p, l, i) ==
    CASE p = 1 -> IF LitAt(l, i, <<"C", "O", "D", "E", ":">>) /\ Digits3At(l, i + 5)
                  THEN i + 5 ELSE 0
      [] p = 2 -> IF LitAt(l, i, <<"C", "=">>) /\ Digits3At(l, i + 2)
                  THEN i + 2 ELSE 0
      [] p = 3 -> IF /\ LitAt(l, i, <<"S", "t", "a", "t", "u", "s", ":">>)
                     /\ Digits3At(l, SkipSpaces(l, i + 7))
                  THEN SkipSpaces(l, i + 7) ELSE 0
      [] p = 4 -> IF /\ LitAt(l, i, <<"[", "S", "t", "a", "t", "u", "s", ":">>)
                     /\ Digits3At(l, SkipSpaces(l, i + 8))
                     /\ LitAt(l, SkipSpaces(l, i + 8) + 3, <<"]">>)
                  THEN SkipSpaces(l, i + 8) ELSE 0
      [] p = 5 -> IF /\ LitAt(l, i, <<"(", "S", "t", "a", "t", "u", "s", ":">>)
                     /\ Digits3At(l, SkipSpaces(l, i + 8))
                     /\ LitAt(l, SkipSpaces(l, i + 8) + 3, <<")">>)
                  THEN SkipSpaces(l, i + 8) ELSE 0
      [] p = 6 -> IF /\ i = 1
                     /\ Digits3At(l, SkipSpaces(l, 1))
                     /\ SpaceAt(l, SkipSpaces(l, 1) + 3)
                  THEN SkipSpaces(l, 1) ELSE 0
      [] p = 7 -> IF /\ Boundary(l, i) /\ Digits3At(l, i) /\ Boundary(l, i + 3)
                     /\ \E j \in (i + 3)..Len(l) :
                          /\ Boundary(l, j)
                          /\ \/ LitAt(l, j, <<"h", "t", "t", "p", ":", "/", "/">>)
                             \/ LitAt(l, j, <<"h", "t", "t", "p", "s", ":", "/", "/">>)
                          /\ \A k \in (i + 3)..(j - 1) : l[k] # "\n"
                  THEN i ELSE 0
      [] p = 8 -> IF /\ Boundary(l, i) /\ Digits3At(l, i) /\ SpaceAt(l, i + 3)
                     /\ DigitAt(l, SkipSpaces(l, i + 3))
                     /\ LET e == SkipDigits(l, SkipSpaces(l, i + 3))
                        IN  e <= Len(l) /\ IsAlpha(l[e])
                  THEN i ELSE 0
      [] p = 9 -> IF /\ LitAt(l, i, <<"|">>)
                     /\ Digits3At(l, SkipSpaces(l, i + 1))
                     /\ LitAt(l, SkipSpaces(l, SkipSpaces(l, i + 1) + 3), <<"|">>)
                  THEN SkipSpaces(l, i + 1) ELSE 0

\* re.search(patterns[p], line): the leftmost match; int(group(1)), or NoCode
StatusSearch(p, l) ==
    LET starts == {i \in 1..Len(l) : StatusGroupAt(p, l, i) # 0}
    IN  IF starts = {} THEN NoCode
        ELSE LET i == CHOOSE s \in starts : \A t \in starts : s <= t
                 g == StatusGroupAt(p, l, i)
             IN  IntOf(l, g, g + 3)

\* the for loop of parse_status_code, from pattern p on
RECURSIVE StatusFrom(_, _)
StatusFrom(p, l) ==
    IF p > NPatterns THEN NoCode
    ELSE LET code == StatusSearch(p, l)
         IN  IF code # NoCode /\ 100 <= code /\ code <= 599
             THEN code
             ELSE StatusFrom(p + 1, l)

parse_status_code(line) == StatusFrom(1, line)

(***************************************************************************)
(* output.py: parse_url, parse_size, parse_finding                         *)
(***************************************************************************)
\* the least element of a non-empty set of positions
MinOf(S) == CHOOSE s \in S : \A t \in S : s <= t

\* the first position >= i that holds whitespace, or Len+1: where \S+ ends
RECURSIVE SkipNonSpaces(_, _)
SkipNonSpaces(l, i) ==
    IF i <= Len(l) /\ ~IsSpace(l[i]) THEN SkipNonSpaces(l, i + 1) ELSE i

\* re.sub(r"\s*\(<lit>.*", "", url) on a text that holds no whitespace
CutFrom(url, lit) ==
    LET at == {i \in 1..Len(url) : LitAt(url, i, lit)}
    IN  IF at = {} THEN url ELSE SubSeq(url, 1, MinOf(at) - 1)

\* url.rstrip(",;])(")
RECURSIVE RstripNoise(_)
RstripNoise(url) ==
    IF Len(url) > 0 /\ url[Len(url)] \in {",", ";", "]", ")", "("}
    THEN RstripNoise(SubSeq(url, 1, Len(url) - 1))
    ELSE url

parse_url(line) ==
    LET at == {i \in 1..Len(line) :
                 \/ /\ LitAt(line, i, <<"h", "t", "t", "p", ":", "/", "/">>)
                    /\ i + 7 <= Len(line) /\ ~IsSpace(line[i + 7])
                 \/ /\ LitAt(line, i, <<"h", "t", "t", "p", "s", ":", "/", "/">>)
                    /\ i + 8 <= Len(line) /\ ~IsSpace(line[i + 8])}
    IN  IF at = {} THEN <<>>
        ELSE LET i == MinOf(at)
                 url == SubSeq(line, i, SkipNonSpaces(line, i) - 1)
             IN  RstripNoise(CutFrom(CutFrom(url, <<"(", "C", "O", "D", "E", ":">>),
                                     <<"(", "S", "t", "a", "t", "u", "s", ":">>))

NSizePatterns == 4

\* Where group(1) starts when size pattern p matches at start position i, else 0.
SizeGroupAt(p, l, i) ==
    CASE p = 1 -> IF LitAt(l, i, <<"S", "I", "Z", "E", ":">>) /\ DigitAt(l, i + 5)
                  THEN i + 5 ELSE 0
      [] p = 2 -> IF /\ LitAt(l, i, <<"S", "i", "z", "e", ":">>)
                     /\ DigitAt(l, SkipSpaces(l, i + 5))
                  THEN SkipSpaces(l, i + 5) ELSE 0
      [] p = 3 -> IF /\ Boundary(l, i) /\ DigitAt(l, i)
                     /\ LET e == SkipDigits(l, i)
                        IN  e <= Len(l) /\ l[e] \in {"B", "b"} /\ Boundary(l, e + 1)
                  THEN i ELSE 0
      [] p = 4 -> IF /\ LitAt(l, i, <<"|">>)
                     /\ DigitAt(l, SkipSpaces(l, i + 1))
                     /\ LitAt(l, SkipSpaces(l, SkipDigits(l, SkipSpaces(l, i + 1))),
                              <<"|">>)
                  THEN SkipSpaces(l, i + 1) ELSE 0

RECURSIVE SizeFrom(_, _)
SizeFrom(p, l) ==
    IF p > NSizePatterns THEN 0
    ELSE LET starts == {i \in 1..Len(l) : SizeGroupAt(p, l, i) # 0}
         IN  IF starts = {} THEN SizeFrom(p + 1, l)
             ELSE LET g == SizeGroupAt(p, l, MinOf(starts))
                  IN  IntOf(l, g, SkipDigits(l, g))

parse_size(line) == SizeFrom(1, line)

\* Python None for a Finding
NoFinding == [status_code |-> NoCode, url |-> <<>>, size |-> 0]

parse_finding(line) ==
    LET status == parse_status_code(line)
    IN  IF status = NoCode THEN NoFinding
        ELSE [status_code |-> status, url |-> parse_url(line), size |-> parse_size(line)]

\* the pattern whose match parse_status_code returned from (history): the index in
\* patterns at which the for loop returned, 0 when it ran to its end
RECURSIVE StatusRuleFrom(_, _)
StatusRuleFrom(p, l) ==
    IF p > NPatterns THEN 0
    ELSE LET code == StatusSearch(p, l)
         IN  IF code # NoCode /\ 100 <= code /\ code <= 599
             THEN p
             ELSE StatusRuleFrom(p + 1, l)

(***************************************************************************)
(* output.py: parse_progress.  Absent (Python None) is NoProgress.         *)
(***************************************************************************)
NoProgress == <<>>

NProgressPatterns == 3

\* the groups of (\d+) <sep> (\d+) when the first group starts at a and sep is
\* "/" with whitespace allowed around it (spaced) or not: <<a, b, d, e>> for
\* group(1) = l[a..b-1] and group(2) = l[d..e-1], else <<>>
Fraction(l, a, spaced) ==
    IF ~DigitAt(l, a) THEN <<>>
    ELSE LET b == SkipDigits(l, a)
             c == IF spaced THEN SkipSpaces(l, b) ELSE b
             d == IF spaced THEN SkipSpaces(l, c + 1) ELSE c + 1
         IN  IF LitAt(l, c, <<"/">>) /\ DigitAt(l, d)
             THEN <<a, b, d, SkipDigits(l, d)>>
             ELSE <<>>

\* The groups when progress pattern p matches at start position i, else <<>>.
ProgressGroupsAt(p, l, i) ==
    CASE p = 1 -> IF LitAt(l, i, <<"P", "r", "o", "g", "r", "e", "s", "s", ":">>)
                  THEN Fraction(l, SkipSpaces(l, i + 9), TRUE)
                  ELSE <<>>
      [] p = 2 -> IF /\ LitAt(l, i, <<"P", "r", "o", "g", "r", "e", "s", "s", ":">>)
                     /\ LitAt(l, SkipSpaces(l, i + 9), <<"[">>)
                  THEN LET g == Fraction(l, SkipSpaces(l, i + 9) + 1, FALSE)
                       IN  IF g # <<>> /\ LitAt(l, g[4], <<"]">>) THEN g ELSE <<>>
                  ELSE <<>>
      [] p = 3 -> IF /\ LitAt(l, i, <<"S", "c", "a", "n", "n", "e", "d">>)
                     /\ SpaceAt(l, i + 7)
                     /\ Fraction(l, SkipSpaces(l, i + 7), FALSE) # <<>>
                  THEN Fraction(l, SkipSpaces(l, i + 7), FALSE)
                  ELSE Fraction(l, i, FALSE)

\* re.search(patterns[p], line): the groups of the leftmost match, or <<>>
ProgressSearch(p, l) ==
    LET starts == {i \in 1..Len(l) : ProgressGroupsAt(p, l, i) # <<>>}
    IN  IF starts = {} THEN <<>> ELSE ProgressGroupsAt(p, l, MinOf(starts))

\* re.search(r"\b(\d{1,3})%", line): int(group(1)), or NoCode
PercentSearch(l) ==
    LET starts == {i \in 1..Len(l) :
                     /\ Boundary(l, i) /\ DigitAt(l, i)
                     /\ SkipDigits(l, i) - i <= 3
                     /\ LitAt(l, SkipDigits(l, i), <<"%">>)}
    IN  IF starts = {} THEN NoCode
        ELSE IntOf(l, MinOf(starts), SkipDigits(l, MinOf(starts)))

\* the for loop of parse_progress from pattern p on, then the percentage; rule is
\* the pattern returned from, NProgressPatterns + 1 for the percentage, 0 for None
RECURSIVE ProgressFrom(_, _)
ProgressFrom(p, l) ==
    IF p > NProgressPatterns
    THEN LET pct == PercentSearch(l)
         IN  IF pct # NoCode /\ 0 < pct /\ pct <= 100
             THEN [done |-> pct, total |-> 100, rule |-> NProgressPatterns + 1]
             ELSE [done |-> 0, total |-> 0, rule |-> 0]
    ELSE LET g == ProgressSearch(p, l)
         IN  IF g = <<>> THEN ProgressFrom(p + 1, l)
             ELSE LET completed == IntOf(l, g[1], g[2])
                      total == IntOf(l, g[3], g[4])
                  IN  IF total > 0 /\ completed <= total
                      THEN [done |-> completed, total |-> total, rule |-> p]
                      ELSE ProgressFrom(p + 1, l)

parse_progress(line) ==
    LET r == ProgressFrom(1, line)
    IN  IF r.rule = 0 THEN NoProgress ELSE <<r.done, r.total>>

(***************************************************************************)
(* The session's inputs and the text the tools may print.                  *)
(***************************************************************************)
ScannerIds == {"primary", "vhost"}

\* scanners/base.py: the keys of create_scanner's table
KnownTools ==
    {"feroxbuster", "ffuf", "gobuster", "dirb", "wfuzz", "dirsearch", "amass",
     "subfinder"}

\* the tool identities a session is started with: known ones and an unknown one
PrimaryToolInputs == {"feroxbuster", "nmap"}

VhostToolInputs == {"ffuf", "nmap"}

ScanTypes == {"directory", "combined"}

\* what a child process may write on its output stream, one line at a time
OutLines ==
    { <<"2", "0", "0", " ", "x", "\n">>,
      <<"C", "=", "4", "0", "4", " ", "\n">>,
      <<"=", "=", ">", "\n">>,
      <<" ", "\n">> }

\* what a child process may write on its error stream, one line at a time
ErrLines == { <<"e", "!", " ">>, <<" ">> }

\* all a child process may have written on its error stream when it is drained,
\* n lines at most
ErrScripts(n) == UNION {[1..k -> ErrLines] : k \in 0..n}

\* the wordlist sizes count_lines may report
MaxWords == 3

\* a wordlist much longer than the output of a session
ManyWords == 1000

WordlistSizes == {0, MaxWords, ManyWords}

NoPath == <<>>

\* output.py: generate_output_paths (host name and timestamp are those of the session)
generate_output_paths(tool, mode) == << <<tool, mode, "txt">>, <<tool, mode, "json">> >>

AllPaths ==
    {<<t, m, e>> : t \in PrimaryToolInputs \cup VhostToolInputs,
                   m \in {"directory", "vhost"}, e \in {"txt", "json"}}

\* scanning.py: f"Scanner error: {exc}" for a failed spawn
ScannerErrorText ==
    <<"S", "c", "a", "n", "n", "e", "r", " ", "e", "r", "r", "o", "r", ":", " ",
      "E", "N", "O", "E", "N", "T">>

\* scanning.py: ScanOutputLine(ScanLine(raw, is_stderr), scanner_id)
ScanOutputLine(raw, is_stderr, scanner_id) ==
    [type |-> "line", raw |-> raw, is_stderr |-> is_stderr, scanner_id |-> scanner_id]

\* scanning.py: ScanComplete(scanner_id)
ScanComplete(scanner_id) ==
    [type |-> "complete", raw |-> <<>>, is_stderr |-> FALSE, scanner_id |-> scanner_id]

\* scanning.py: _rate_samples = deque(maxlen=50)
RateSamplesMaxLen == 50

DequeAppend(d, x) ==
    IF Len(d) >= RateSamplesMaxLen THEN Append(Tail(d), x) ELSE Append(d, x)

VARIABLES
    scan_type, selected_tool, selected_vhost_tool,   \* the app's shared scan state
    wordlist_lines,      \* the number of lines of the wordlist file (0: no file)
    start_pc,            \* where the _start_scan worker stands
    total_words, raw_path, json_path, vhost_raw_path, vhost_json_path,
    scanner,             \* scanner[s]: self._scanner / self._vhost_scanner is set
    task,                \* task[s]: the _run_scanner task of s
    must_cancel,         \* must_cancel[s]: task.cancel() was called on a live task
    gen,                 \* gen[s]: where the run_scan generator of s stands
    proc,                \* proc[s]: the child process of s: "none", "running",
                         \* "exited", or "spawn_failed" (there never was one)
    returncode,          \* returncode[s]: self._process.returncode: "none" (None),
                         \* "exit" (the child's own status), "SIGTERM" or "SIGKILL"
                         \* (the negative number of the signal that ended it)
    emitted,             \* emitted[s]: the output lines the child wrote, as read
    emitted_err,         \* emitted_err[s]: the error-stream data the child wrote
    sent_signals,        \* sent_signals[s]: terminate/kill signals sent to the child
    queue,               \* the screen's message queue (post_message)
    posted,              \* posted[s]: ScanComplete messages s's task posted (history)
    lines_received, errors, findings, raw_lines, stderr_lines, rate_samples,
    vhost_findings, vhost_lines_received, vhost_raw_lines, vhost_stderr_lines,
    completed_scanners, total_scanners,
    append_workers,      \* the append_raw_line workers, in the order they were started
    files,               \* files[path]: the lines of a raw output file
    json_files,          \* json_files[path]: the findings files written so far
    finalise_workers,    \* the _finalise workers: where each stands
    results,             \* the ScanResults handed to the summary
    cancel_workers,      \* the scanner.cancel() workers
    cancels,             \* how many times the cancel action ran
    cancel_snapshot,     \* what was accumulated when cancel first ran on live tasks
                         \* (history)
    start_time, now,
    cli_pc,              \* main.py run_cli_scan: "new", "running", "done" or "raised"
    cli_eof,             \* cli_eof[stream]: read_stdout / read_stderr reached the end
    cli_emitted,         \* the lines the child of run_cli_scan wrote, as read
    cli_result,          \* the ScanResult of run_cli_scan
    cli_file,            \* the lines of the raw output file of run_cli_scan
    cli_json,            \* the findings files run_cli_scan wrote
    cli_append_failures, \* append_raw_line calls of run_cli_scan that raised (history)
    stats,               \* what the last _refresh_stats displayed, and what it saw
    arrival_log,         \* arrival_log[t]: output lines of the primary scanner handled
                         \* at time t (history)
    line_in,             \* the line the classifier functions of output.py are called on
    status_result,       \* what parse_status_code(line_in) returned, once called
    finding_result,      \* what parse_finding(line_in) returned, once called
    progress_result,     \* what parse_progress(line_in) returned, once called
    rs_pc,               \* base.py run_scan on its own: where the generator stands
    child_state,         \* its child process: "none", "running" or "exited"
    child_plan,          \* the writes the child has still to do, in its order
    child_written,       \* how many writes the child has done
    stdout_buffer,       \* what the child wrote on its output stream, not yet read
    stderr_buffer,       \* what the child wrote on its error stream, not yet read
    stderr_read,         \* what self._process.stderr.read() has collected so far
    scan_lines           \* the ScanLines run_scan has yielded, in order

runVars ==
    <<rs_pc, child_state, child_plan, child_written, stdout_buffer, stderr_buffer,
      stderr_read, scan_lines>>

classVars == <<line_in, status_result, finding_result, progress_result>>

cliVars ==
    <<cli_pc, cli_eof, cli_emitted, cli_result, cli_file, cli_json, cli_append_failures>>

statVars == <<stats, arrival_log>>

configVars == <<scan_type, selected_tool, selected_vhost_tool, wordlist_lines>>

startVars == <<start_pc, total_words, raw_path, json_path, vhost_raw_path, vhost_json_path>>

taskVars == <<scanner, task, must_cancel, gen, posted>>

procVars == <<proc, returncode, emitted, emitted_err, sent_signals>>

accVars ==
    <<lines_received, errors, findings, raw_lines, stderr_lines, rate_samples,
      vhost_findings, vhost_lines_received, vhost_raw_lines, vhost_stderr_lines>>

countVars == <<completed_scanners, total_scanners>>

ioVars == <<append_workers, files, json_files>>

finVars == <<finalise_workers, results>>

cancelVars == <<cancel_workers, cancels, cancel_snapshot>>

timeVars == <<start_time, now>>

vars ==
    <<configVars, startVars, taskVars, procVars, queue, accVars, countVars, ioVars,
      finVars, cancelVars, timeVars, cliVars, statVars, classVars,
      runVars>>

\* the clock runs from 0 to MaxTime, in seconds
MaxTime == 6

\* no _refresh_stats ran yet
NoStats == [refreshed |-> FALSE]

\* no cancel action ran on live tasks yet
NoSnapshot ==
    [taken |-> FALSE, findings |-> <<>>, raw_lines |-> <<>>, vhost_findings |-> <<>>,
     vhost_raw_lines |-> <<>>]

(***************************************************************************)
(* scanning.py: ScanningScreen.on_mount.  The initial state is the state   *)
(* on_mount leaves: accumulators reset, the _start_scan worker scheduled.  *)
(***************************************************************************)
\* on_mount without its combined branch
on_mount_total_scanners_single(st) == 1

on_mount_total_scanners(st) == IF st = "combined" THEN 2 ELSE 1

\* the screen, and run_cli_scan not yet called
ScreenInit ==
    /\ scan_type \in ScanTypes
    /\ selected_tool \in PrimaryToolInputs
    /\ selected_vhost_tool \in (IF scan_type = "combined" THEN VhostToolInputs ELSE {"ffuf"})
    /\ wordlist_lines \in WordlistSizes
    /\ start_pc = "pending"
    /\ total_words = 0
    /\ raw_path = NoPath /\ json_path = NoPath
    /\ vhost_raw_path = NoPath /\ vhost_json_path = NoPath
    /\ scanner = [s \in ScannerIds |-> FALSE]
    /\ task = [s \in ScannerIds |-> "none"]
    /\ must_cancel = [s \in ScannerIds |-> FALSE]
    /\ gen = [s \in ScannerIds |-> "new"]
    /\ proc = [s \in ScannerIds |-> "none"]
    /\ returncode = [s \in ScannerIds |-> "none"]
    /\ emitted = [s \in ScannerIds |-> <<>>]
    /\ emitted_err = [s \in ScannerIds |-> <<>>]
    /\ sent_signals = [s \in ScannerIds |-> <<>>]
    /\ queue = <<>>
    /\ posted = [s \in ScannerIds |-> 0]
    /\ lines_received = 0 /\ errors = 0
    /\ findings = <<>> /\ raw_lines = <<>> /\ stderr_lines = <<>>
    /\ rate_samples = <<>>
    /\ vhost_findings = <<>> /\ vhost_lines_received = 0
    /\ vhost_raw_lines = <<>> /\ vhost_stderr_lines = <<>>
    /\ completed_scanners = 0
    /\ total_scanners = on_mount_total_scanners(scan_type)
    /\ append_workers = <<>>
    /\ files = [p \in AllPaths |-> <<>>]
    /\ json_files = [p \in AllPaths |-> <<>>]
    /\ finalise_workers = <<>>
    /\ results = <<>>
    /\ cancel_workers = <<>>
    /\ cancels = 0
    /\ cancel_snapshot = NoSnapshot
    /\ start_time = 0 /\ now = 0
    /\ stats = NoStats
    /\ arrival_log = [t \in 0..MaxTime |-> 0]
    /\ cli_pc = "new"
    /\ cli_eof = [stream \in {"stdout", "stderr"} |-> FALSE]
    /\ cli_emitted = [stream \in {"stdout", "stderr"} |-> <<>>]
    /\ cli_result = [raw_lines |-> <<>>, findings |-> <<>>, stderr_lines |-> <<>>]
    /\ cli_file = <<>>
    /\ cli_json = <<>>
    /\ cli_append_failures = 0

\* no classifier function was called yet
NotCalled == [called |-> FALSE]

\* run_scan was not called on its own
RunScanNotCalled ==
    /\ rs_pc = "new" /\ child_state = "none"
    /\ child_written = 0
    /\ stdout_buffer = <<>>
    /\ stderr_buffer = [data |-> <<>>, paused |-> FALSE]
    /\ stderr_read = <<>> /\ scan_lines = <<>>

Init ==
    /\ ScreenInit
    /\ line_in = <<>>
    /\ status_result = NotCalled
    /\ finding_result = NotCalled
    /\ progress_result = NotCalled
    /\ RunScanNotCalled
    /\ child_plan = <<>>

(***************************************************************************)
(* scanning.py: ScanningScreen._start_scan, a worker of two steps: up to   *)
(* the await of count_lines, and from there to the await of gather.        *)
(***************************************************************************)
\* wordlist.py: count_lines(wl_path), awaited when the file exists
count_lines == wordlist_lines

StartScanCount ==
    /\ start_pc = "pending"
    /\ total_words' = count_lines
    /\ start_pc' = "counted"
    /\ UNCHANGED <<runVars, classVars, cliVars, statVars, configVars, raw_path, json_path,
                   vhost_raw_path, vhost_json_path, taskVars, procVars, queue, accVars,
                   countVars, ioVars, finVars, cancelVars, timeVars>>

\* scanners/base.py: create_scanner raises ValueError for a tool it does not know
create_scanner_raises(tool) == tool \notin KnownTools

StartScanLaunch ==
    /\ start_pc = "counted"
    /\ LET effective_mode == IF scan_type # "combined" THEN scan_type ELSE "directory"
           paths == generate_output_paths(selected_tool, effective_mode)
           vpaths == generate_output_paths(selected_vhost_tool, "vhost")
       IN  /\ raw_path' = paths[1]
           /\ json_path' = paths[2]
           /\ IF create_scanner_raises(selected_tool)
              THEN \* line 215 raises: the worker ends, nothing was launched
                   /\ start_pc' = "failed"
                   /\ UNCHANGED <<scanner, task, vhost_raw_path, vhost_json_path>>
              ELSE IF scan_type # "combined"
              THEN /\ scanner' = [scanner EXCEPT !["primary"] = TRUE]
                   /\ task' = [task EXCEPT !["primary"] = "created"]
                   /\ start_pc' = "gather"
                   /\ UNCHANGED <<vhost_raw_path, vhost_json_path>>
              ELSE /\ vhost_raw_path' = vpaths[1]
                   /\ vhost_json_path' = vpaths[2]
                   /\ IF create_scanner_raises(selected_vhost_tool)
                      THEN \* line 228 raises after the primary task was created
                           /\ scanner' = [scanner EXCEPT !["primary"] = TRUE]
                           /\ task' = [task EXCEPT !["primary"] = "created"]
                           /\ start_pc' = "failed"
                      ELSE /\ scanner' = [s \in ScannerIds |-> TRUE]
                           /\ task' = [s \in ScannerIds |-> "created"]
                           /\ start_pc' = "gather"
    /\ UNCHANGED <<runVars, classVars, cliVars, statVars, configVars, total_words,
                   must_cancel, gen, posted, procVars, queue, accVars, countVars, ioVars,
                   finVars, cancelVars, timeVars>>

(***************************************************************************)
(* The child process of a scanner.  Its streams deliver what it writes in  *)
(* order, whenever the runner reads: a line is chosen when the runner      *)
(* reads it (TaskReadLine, TaskDrainStderr).  Its exit closes both streams.*)
(***************************************************************************)
\* the exit statuses a child can end with, given the signals it was sent
ExitCodes(signals) ==
    {"exit"}
    \cup (IF \E i \in DOMAIN signals : signals[i] = "TERM" THEN {"SIGTERM"} ELSE {})
    \cup (IF \E i \in DOMAIN signals : signals[i] = "KILL" THEN {"SIGKILL"} ELSE {})

ProcExit(s) ==
    /\ proc[s] = "running"
    /\ proc' = [proc EXCEPT ![s] = "exited"]
    /\ \E code \in ExitCodes(sent_signals[s]) :
          returncode' = [returncode EXCEPT ![s] = code]
    /\ UNCHANGED <<runVars, classVars, cliVars, statVars, configVars, startVars, taskVars,
                   emitted, emitted_err, sent_signals, queue, accVars, countVars, ioVars,
                   finVars, cancelVars, timeVars>>

(***************************************************************************)
(* scanning.py: ScanningScreen._run_scanner over base.py: run_scan.        *)
(* One action is what the task runs between two suspension points.         *)
(***************************************************************************)
\* self.post_message(m): the message joins the screen's queue
post_message(q, m) == Append(q, m)

\* _run_scanner without its except clause: a failed spawn posts the completion only
TaskStart_no_except(s) ==
    /\ task[s] = "created"
    /\ ~must_cancel[s]
    /\ \/ /\ proc' = [proc EXCEPT ![s] = "running"]
          /\ task' = [task EXCEPT ![s] = "running"]
          /\ gen' = [gen EXCEPT ![s] = "stdout"]
          /\ UNCHANGED <<queue, posted>>
       \/ /\ queue' = post_message(queue, ScanComplete(s))
          /\ posted' = [posted EXCEPT ![s] = @ + 1]
          /\ task' = [task EXCEPT ![s] = "done"]
          /\ gen' = [gen EXCEPT ![s] = "end"]
          /\ proc' = [proc EXCEPT ![s] = "spawn_failed"]
    /\ UNCHANGED <<runVars, classVars, cliVars, statVars, configVars, startVars, scanner,
                   must_cancel, returncode, emitted, emitted_err, sent_signals, accVars,
                   countVars, ioVars, finVars, cancelVars, timeVars>>

\* The first step of the task: build_command and the spawn.  The spawn either
\* succeeds (the task then awaits the child's output) or raises at once; the
\* except clause then posts the error line and the finally clause the completion.
TaskStart(s) ==
    /\ task[s] = "created"
    /\ ~must_cancel[s]
    /\ \/ /\ proc' = [proc EXCEPT ![s] = "running"]
          /\ task' = [task EXCEPT ![s] = "running"]
          /\ gen' = [gen EXCEPT ![s] = "stdout"]
          /\ UNCHANGED <<queue, posted>>
       \/ /\ queue' = post_message(post_message(queue,
                          ScanOutputLine(ScannerErrorText, TRUE, s)), ScanComplete(s))
          /\ posted' = [posted EXCEPT ![s] = @ + 1]
          /\ task' = [task EXCEPT ![s] = "done"]
          /\ gen' = [gen EXCEPT ![s] = "end"]
          /\ proc' = [proc EXCEPT ![s] = "spawn_failed"]
    /\ UNCHANGED <<runVars, classVars, cliVars, statVars, configVars, startVars, scanner,
                   must_cancel, returncode, emitted, emitted_err, sent_signals, accVars,
                   countVars, ioVars, finVars, cancelVars, timeVars>>

\* async for raw_line in self._process.stdout: the child writes a line, which
\* is read, decoded, stripped and, unless empty, yielded and posted
TaskReadLine(s) ==
    /\ task[s] = "running"
    /\ ~must_cancel[s]
    /\ gen[s] = "stdout"
    /\ proc[s] = "running"
    /\ Len(emitted["primary"]) + Len(emitted["vhost"]) < MaxOut
    /\ \E raw_line \in OutLines :
         /\ emitted' = [emitted EXCEPT ![s] = Append(@, raw_line)]
         /\ queue' = IF rstrip(raw_line) # <<>>
                      THEN post_message(queue, ScanOutputLine(rstrip(raw_line), FALSE, s))
                      ELSE queue
    /\ UNCHANGED <<runVars, classVars, cliVars, statVars, configVars, startVars, taskVars,
                   proc, returncode, emitted_err, sent_signals, accVars, countVars, ioVars,
                   finVars, cancelVars, timeVars>>

\* the messages for the lines of stderr_read, stripped, blank ones skipped
RECURSIVE StderrMessages(_, _)
StderrMessages(data, s) ==
    IF data = <<>> THEN <<>>
    ELSE IF strip(Head(data)) # <<>>
         THEN <<ScanOutputLine(strip(Head(data)), TRUE, s)>> \o StderrMessages(Tail(data), s)
         ELSE StderrMessages(Tail(data), s)

\* the output stream is at its end: stderr is read in bulk and its lines yielded
TaskDrainStderr(s) ==
    /\ task[s] = "running"
    /\ ~must_cancel[s]
    /\ gen[s] = "stdout"
    /\ proc[s] = "exited"
    /\ \E stderr_data \in ErrScripts(MaxErr - Len(emitted_err["primary"])
                                             - Len(emitted_err["vhost"])) :
         /\ emitted_err' = [emitted_err EXCEPT ![s] = stderr_data]
         /\ queue' = queue \o StderrMessages(stderr_data, s)
    /\ gen' = [gen EXCEPT ![s] = "wait"]
    /\ UNCHANGED <<runVars, classVars, cliVars, statVars, configVars, startVars, scanner,
                   task, must_cancel, posted, proc, returncode, emitted, sent_signals,
                   accVars, countVars, ioVars, finVars, cancelVars, timeVars>>

\* await self._process.wait() returns, the generator ends, finally posts ScanComplete
TaskFinish(s) ==
    /\ task[s] = "running"
    /\ ~must_cancel[s]
    /\ gen[s] = "wait"
    /\ proc[s] = "exited"
    /\ queue' = post_message(queue, ScanComplete(s))
    /\ posted' = [posted EXCEPT ![s] = @ + 1]
    /\ task' = [task EXCEPT ![s] = "done"]
    /\ gen' = [gen EXCEPT ![s] = "end"]
    /\ UNCHANGED <<runVars, classVars, cliVars, statVars, configVars, startVars, scanner,
                   must_cancel, procVars, accVars, countVars, ioVars, finVars, cancelVars,
                   timeVars>>

\* The step of a task that was cancelled.  CancelledError is thrown into the
\* coroutine where it is suspended: past the except clause (it is no Exception),
\* through the finally clause, which posts ScanComplete.  A task that never ran
\* its first step has not entered the try statement: its coroutine ends with
\* nothing posted.
TaskCancelled(s) ==
    /\ task[s] \in {"created", "running"}
    /\ must_cancel[s]
    /\ IF task[s] = "running"
       THEN /\ queue' = post_message(queue, ScanComplete(s))
            /\ posted' = [posted EXCEPT ![s] = @ + 1]
       ELSE UNCHANGED <<queue, posted>>
    /\ task' = [task EXCEPT ![s] = "done"]
    /\ gen' = [gen EXCEPT ![s] = "end"]
    /\ must_cancel' = [must_cancel EXCEPT ![s] = FALSE]
    /\ UNCHANGED <<runVars, classVars, cliVars, statVars, configVars, startVars, scanner,
                   procVars, accVars, countVars, ioVars, finVars, cancelVars, timeVars>>

(***************************************************************************)
(* scanning.py: the screen's message handlers.  The message pump takes the *)
(* messages of the queue one at a time, in the order they were posted.     *)
(***************************************************************************)
\* the append worker started only for the lines that are findings
StartAppendWorker_findings_only(workers, path, line) ==
    IF path # NoPath /\ parse_status_code(line) # NoCode
    THEN Append(workers, [path |-> path, line |-> line, pc |-> "pending"])
    ELSE workers

\* run_worker(append_raw_line(raw_path, line)): a worker is started, not awaited
StartAppendWorker(workers, path, line) ==
    IF path # NoPath
    THEN Append(workers, [path |-> path, line |-> line, pc |-> "pending"])
    ELSE workers

\* the append without the test `if finding:`
AppendFinding_untested(list, line) == Append(list, parse_finding(line))

\* an insert at the front in place of the append
AppendFinding_front(list, line) ==
    IF parse_finding(line) # NoFinding THEN <<parse_finding(line)>> \o list ELSE list

\* self._findings.append(finding) when parse_finding returned one
AppendFinding(list, line) ==
    IF parse_finding(line) # NoFinding THEN Append(list, parse_finding(line)) ELSE list

\* the handler without the `return` that ends its error-stream branch
on_scan_output_line_no_return ==
    /\ queue # <<>>
    /\ Head(queue).type = "line"
    /\ LET line == Head(queue).raw
           scanner_id == Head(queue).scanner_id
       IN  /\ IF ~Head(queue).is_stderr
              THEN UNCHANGED <<stderr_lines, vhost_stderr_lines>>
              ELSE IF scanner_id = "vhost"
                   THEN /\ vhost_stderr_lines' = Append(vhost_stderr_lines, line)
                        /\ UNCHANGED stderr_lines
                   ELSE /\ stderr_lines' = Append(stderr_lines, line)
                        /\ UNCHANGED vhost_stderr_lines
           /\ IF scanner_id = "vhost"
              THEN /\ vhost_lines_received' = vhost_lines_received + 1
                   /\ vhost_raw_lines' = Append(vhost_raw_lines, line)
                   /\ append_workers' =
                        StartAppendWorker(append_workers, vhost_raw_path, line)
                   /\ vhost_findings' = AppendFinding(vhost_findings, line)
                   /\ UNCHANGED <<lines_received, raw_lines, rate_samples, findings,
                                  arrival_log>>
              ELSE /\ lines_received' = lines_received + 1
                   /\ raw_lines' = Append(raw_lines, line)
                   /\ rate_samples' = DequeAppend(rate_samples, now)
                   /\ arrival_log' = [arrival_log EXCEPT ![now] = @ + 1]
                   /\ append_workers' =
                        StartAppendWorker(append_workers, raw_path, line)
                   /\ findings' = AppendFinding(findings, line)
                   /\ UNCHANGED <<vhost_lines_received, vhost_raw_lines,
                                  vhost_findings>>
    /\ queue' = Tail(queue)
    /\ UNCHANGED <<runVars, classVars, cliVars, stats, configVars, startVars, taskVars,
                   procVars, errors, countVars, files, json_files, finVars, cancelVars,
                   timeVars>>

on_scan_output_line ==
    /\ queue # <<>>
    /\ Head(queue).type = "line"
    /\ LET line == Head(queue).raw
           scanner_id == Head(queue).scanner_id
       IN  IF Head(queue).is_stderr
           THEN /\ IF scanner_id = "vhost"
                   THEN /\ vhost_stderr_lines' = Append(vhost_stderr_lines, line)
                        /\ UNCHANGED stderr_lines
                   ELSE /\ stderr_lines' = Append(stderr_lines, line)
                        /\ UNCHANGED vhost_stderr_lines
                /\ UNCHANGED <<lines_received, findings, raw_lines, rate_samples,
                               vhost_findings, vhost_lines_received, vhost_raw_lines,
                               append_workers, arrival_log>>
           ELSE /\ IF scanner_id = "vhost"
                   THEN /\ vhost_lines_received' = vhost_lines_received + 1
                        /\ vhost_raw_lines' = Append(vhost_raw_lines, line)
                        /\ append_workers' =
                             StartAppendWorker(append_workers, vhost_raw_path, line)
                        /\ vhost_findings' = AppendFinding(vhost_findings, line)
                        /\ UNCHANGED <<lines_received, raw_lines, rate_samples, findings,
                                       arrival_log>>
                   ELSE /\ lines_received' = lines_received + 1
                        /\ raw_lines' = Append(raw_lines, line)
                        /\ rate_samples' = DequeAppend(rate_samples, now)
                        /\ arrival_log' = [arrival_log EXCEPT ![now] = @ + 1]
                        /\ append_workers' =
                             StartAppendWorker(append_workers, raw_path, line)
                        /\ findings' = AppendFinding(findings, line)
                        /\ UNCHANGED <<vhost_lines_received, vhost_raw_lines,
                                       vhost_findings>>
                /\ UNCHANGED <<stderr_lines, vhost_stderr_lines>>
    /\ queue' = Tail(queue)
    /\ UNCHANGED <<runVars, classVars, cliVars, stats, configVars, startVars, taskVars,
                   procVars, errors, countVars, files, json_files, finVars, cancelVars,
                   timeVars>>

\* the test of on_scan_complete: all scanners done
all_scanners_done(completed, total) == completed >= total

on_scan_complete ==
    /\ queue # <<>>
    /\ Head(queue).type = "complete"
    /\ completed_scanners' = completed_scanners + 1
    /\ finalise_workers' =
         IF all_scanners_done(completed_scanners + 1, total_scanners)
         THEN Append(finalise_workers, "started")
         ELSE finalise_workers
    /\ queue' = Tail(queue)
    /\ UNCHANGED <<runVars, classVars, cliVars, statVars, configVars, startVars, taskVars,
                   procVars, accVars, total_scanners, ioVars, results, cancelVars,
                   timeVars>>

(***************************************************************************)
(* output.py: append_raw_line, run as a worker per line: the file is       *)
(* opened for appending, then the line is written and the file closed.     *)
(***************************************************************************)
AppendOpen(w) ==
    /\ append_workers[w].pc = "pending"
    /\ append_workers' = [append_workers EXCEPT ![w].pc = "open"]
    /\ UNCHANGED <<runVars, classVars, cliVars, statVars, configVars, startVars, taskVars,
                   procVars, queue, accVars, countVars, files, json_files, finVars,
                   cancelVars, timeVars>>

AppendWrite(w) ==
    /\ append_workers[w].pc = "open"
    /\ files' = [files EXCEPT ![append_workers[w].path] = Append(@, append_workers[w].line)]
    /\ append_workers' = [append_workers EXCEPT ![w].pc = "done"]
    /\ UNCHANGED <<runVars, classVars, cliVars, statVars, configVars, startVars, taskVars,
                   procVars, queue, accVars, countVars, json_files, finVars, cancelVars,
                   timeVars>>

(***************************************************************************)
(* scanning.py: ScanningScreen._finalise, a worker: the two findings files *)
(* are written (each an await), then the ScanResult is built and handed on.*)
(***************************************************************************)
\* output.py: write_json_results(path, findings)
write_json_results(jf, path, list) ==
    IF path # NoPath THEN [jf EXCEPT ![path] = Append(@, list)] ELSE jf

FinaliseWritePrimary(k) ==
    /\ finalise_workers[k] = "started"
    /\ json_files' = write_json_results(json_files, json_path, findings)
    /\ finalise_workers' = [finalise_workers EXCEPT ![k] = "primary_written"]
    /\ UNCHANGED <<runVars, classVars, cliVars, statVars, configVars, startVars, taskVars,
                   procVars, queue, accVars, countVars, append_workers, files, results,
                   cancelVars, timeVars>>

FinaliseWriteVhost(k) ==
    /\ finalise_workers[k] = "primary_written"
    /\ json_files' = write_json_results(json_files, vhost_json_path, vhost_findings)
    /\ finalise_workers' = [finalise_workers EXCEPT ![k] = "vhost_written"]
    /\ UNCHANGED <<runVars, classVars, cliVars, statVars, configVars, startVars, taskVars,
                   procVars, queue, accVars, countVars, append_workers, files, results,
                   cancelVars, timeVars>>

\* the path the worker's next write_json_results goes to (NoPath: it is skipped)
NextJsonPath(k) ==
    IF finalise_workers[k] = "started" THEN json_path
    ELSE IF finalise_workers[k] = "primary_written" THEN vhost_json_path
    ELSE NoPath

\* a failed write caught and passed over: the worker goes on to its next step
FinaliseWriteRaises_swallowed(k) ==
    /\ NextJsonPath(k) # NoPath
    /\ finalise_workers' =
         [finalise_workers EXCEPT ![k] =
            IF @ = "started" THEN "primary_written" ELSE "vhost_written"]
    /\ UNCHANGED <<runVars, classVars, cliVars, statVars, configVars, startVars, taskVars,
                   procVars, queue, accVars, countVars, ioVars, results, cancelVars,
                   timeVars>>

\* write_json_results raises (the file cannot be opened or written): nothing in
\* _finalise catches it, the exception ends the worker
FinaliseWriteRaises(k) ==
    /\ NextJsonPath(k) # NoPath
    /\ finalise_workers' = [finalise_workers EXCEPT ![k] = "raised"]
    /\ UNCHANGED <<runVars, classVars, cliVars, statVars, configVars, startVars, taskVars,
                   procVars, queue, accVars, countVars, ioVars, results, cancelVars,
                   timeVars>>

\* ScanResult(...) of _finalise
ScanResult ==
    [tool |-> selected_tool,
     mode |-> scan_type,
     total_words |-> total_words,
     duration_seconds |-> now - start_time,
     findings |-> findings \o vhost_findings,
     raw_lines |-> raw_lines,
     stderr_lines |-> stderr_lines \o vhost_stderr_lines,
     errors |-> errors]

FinaliseResult(k) ==
    /\ finalise_workers[k] = "vhost_written"
    /\ results' = Append(results, ScanResult)
    /\ finalise_workers' = [finalise_workers EXCEPT ![k] = "done"]
    /\ UNCHANGED <<runVars, classVars, cliVars, statVars, configVars, startVars, taskVars,
                   procVars, queue, accVars, countVars, ioVars, cancelVars, timeVars>>

(***************************************************************************)
(* scanning.py: ScanningScreen.action_cancel_scan, and base.py: cancel,    *)
(* run as a worker per scanner: terminate, sleep 0.5 s, kill if alive.     *)
(***************************************************************************)
\* for task in self._scan_tasks: if not task.done(): task.cancel()
CancelTasks(tk, mc) ==
    [s \in ScannerIds |-> IF tk[s] \in {"created", "running"} THEN TRUE ELSE mc[s]]

\* the cancel workers started: one per scanner that exists
CancelWorkersFor(sc) ==
    (IF sc["primary"] THEN <<[s |-> "primary", pc |-> "pending"]>> ELSE <<>>)
    \o (IF sc["vhost"] THEN <<[s |-> "vhost", pc |-> "pending"]>> ELSE <<>>)

\* action_cancel_scan posting a ScanComplete of its own for every scanner it cancels
action_cancel_scan_posts_complete ==
    /\ cancels < MaxCancels
    /\ cancels' = cancels + 1
    /\ cancel_workers' = cancel_workers \o CancelWorkersFor(scanner)
    /\ must_cancel' = CancelTasks(task, must_cancel)
    /\ queue' = queue \o [i \in DOMAIN CancelWorkersFor(scanner) |->
                          ScanComplete(CancelWorkersFor(scanner)[i].s)]
    /\ cancel_snapshot' =
         IF ~cancel_snapshot.taken /\ \E s \in ScannerIds : task[s] \in {"created", "running"}
         THEN [taken |-> TRUE, findings |-> findings, raw_lines |-> raw_lines,
               vhost_findings |-> vhost_findings, vhost_raw_lines |-> vhost_raw_lines]
         ELSE cancel_snapshot
    /\ UNCHANGED <<runVars, classVars, cliVars, statVars, configVars, startVars, scanner,
                   task, gen, posted, procVars, accVars, countVars, ioVars, finVars,
                   timeVars>>

action_cancel_scan ==
    /\ cancels < MaxCancels
    /\ cancels' = cancels + 1
    /\ cancel_workers' = cancel_workers \o CancelWorkersFor(scanner)
    /\ must_cancel' = CancelTasks(task, must_cancel)
    /\ cancel_snapshot' =
         IF ~cancel_snapshot.taken /\ \E s \in ScannerIds : task[s] \in {"created", "running"}
         THEN [taken |-> TRUE, findings |-> findings, raw_lines |-> raw_lines,
               vhost_findings |-> vhost_findings, vhost_raw_lines |-> vhost_raw_lines]
         ELSE cancel_snapshot
    /\ UNCHANGED <<runVars, classVars, cliVars, statVars, configVars, startVars, scanner,
                   task, gen, posted, procVars, queue, accVars, countVars, ioVars, finVars,
                   timeVars>>

\* returncode is None: the child exists and has not exited
Alive(s) == proc[s] = "running"

CancelTerminate(c) ==
    /\ cancel_workers[c].pc = "pending"
    /\ IF Alive(cancel_workers[c].s)
       THEN /\ sent_signals' = [sent_signals EXCEPT ![cancel_workers[c].s] = Append(@, "TERM")]
            /\ cancel_workers' = [cancel_workers EXCEPT ![c].pc = "sleeping"]
       ELSE /\ cancel_workers' = [cancel_workers EXCEPT ![c].pc = "done"]
            /\ UNCHANGED sent_signals
    /\ UNCHANGED <<runVars, classVars, cliVars, statVars, configVars, startVars, taskVars,
                   proc, returncode, emitted, emitted_err, queue, accVars, countVars,
                   ioVars, finVars, cancels, cancel_snapshot, timeVars>>

\* cancel without the second test of returncode: kill after the sleep, always
CancelKill_untested(c) ==
    /\ cancel_workers[c].pc = "sleeping"
    /\ sent_signals' = [sent_signals EXCEPT ![cancel_workers[c].s] = Append(@, "KILL")]
    /\ cancel_workers' = [cancel_workers EXCEPT ![c].pc = "done"]
    /\ UNCHANGED <<runVars, classVars, cliVars, statVars, configVars, startVars, taskVars,
                   proc, returncode, emitted, emitted_err, queue, accVars, countVars,
                   ioVars, finVars, cancels, cancel_snapshot, timeVars>>

CancelKill(c) ==
    /\ cancel_workers[c].pc = "sleeping"
    /\ IF Alive(cancel_workers[c].s)
       THEN sent_signals' = [sent_signals EXCEPT ![cancel_workers[c].s] = Append(@, "KILL")]
       ELSE UNCHANGED sent_signals
    /\ cancel_workers' = [cancel_workers EXCEPT ![c].pc = "done"]
    /\ UNCHANGED <<runVars, classVars, cliVars, statVars, configVars, startVars, taskVars,
                   proc, returncode, emitted, emitted_err, queue, accVars, countVars,
                   ioVars, finVars, cancels, cancel_snapshot, timeVars>>

(***************************************************************************)
(* scanning.py: ScanningScreen._refresh_stats, run by a timer every        *)
(* second, with _format_elapsed and _estimate_eta.  Times are in whole     *)
(* seconds; a quotient is kept as the fraction num/den.                    *)
(***************************************************************************)
\* the trailing window of the rate, in seconds
RateWindow == 5

\* the text "--"
Unknown == [text |-> "--"]

\* int(x) for x = num/den, den > 0: the quotient rounded towards zero
Trunc(num, den) == IF num >= 0 THEN num \div den ELSE 0 - ((0 - num) \div den)

\* _format_elapsed(seconds), on int(seconds): "{mins}m {secs:02d}s" or "{secs}s"
format_elapsed(seconds) ==
    IF seconds \div 60 > 0
    THEN [mins |-> seconds \div 60, secs |-> seconds % 60]
    ELSE [secs |-> seconds % 60]

\* _estimate_eta(elapsed, done, total)
estimate_eta(elapsed, done, total) ==
    IF done <= 0 \/ elapsed <= 0 THEN Unknown
    ELSE format_elapsed(Trunc((total - done) * elapsed, done))

\* eta_seconds = remaining / rate in _estimate_eta, for done > 0 and elapsed > 0:
\* (total - done) / (done / elapsed), as a fraction
eta_seconds(elapsed, done, total) == [num |-> (total - done) * elapsed, den |-> done]

\* recent = [t for t in self._rate_samples if now - t <= 5.0]
Recent(samples, t) ==
    LET InWindow(x) == t - x <= RateWindow
    IN  SelectSeq(samples, InWindow)

\* rate = len(recent) / 5.0 if recent else 0.0
Rate(samples, t) == [num |-> Len(Recent(samples, t)), den |-> RateWindow]

\* pct = min(100, (self._lines_received / self._total_words) * 100)
Percent(received, total) ==
    IF received * 100 >= 100 * total
    THEN [num |-> 100, den |-> 1]
    ELSE [num |-> received * 100, den |-> total]

\* the output lines of the primary scanner handled within the window that ends at t
RECURSIVE WindowCount(_, _, _)
WindowCount(log, t, u) ==
    IF u > t THEN 0
    ELSE (IF t - u <= RateWindow THEN log[u] ELSE 0) + WindowCount(log, t, u + 1)

\* _refresh_stats keeping only the samples of the window in self._rate_samples
refresh_stats_drops_old_samples ==
    /\ stats' =
         [refreshed |-> TRUE,
          elapsed |-> format_elapsed(now - start_time),
          rate |-> Rate(rate_samples, now),
          pct |-> IF total_words > 0 THEN Percent(lines_received, total_words)
                  ELSE [num |-> 0, den |-> 1],
          eta |-> IF total_words > 0
                  THEN estimate_eta(now - start_time, lines_received, total_words)
                  ELSE Unknown,
          sent |-> lines_received,
          total |-> total_words,
          errors |-> errors,
          \* history: what was true when the refresh ran
          elapsed_seconds |-> now - start_time,
          in_window |-> WindowCount(arrival_log, now, 0)]
    /\ rate_samples' = Recent(rate_samples, now)
    /\ UNCHANGED <<runVars, classVars, cliVars, arrival_log, configVars, startVars,
                   taskVars, procVars, queue, lines_received, errors, findings, raw_lines,
                   stderr_lines, vhost_findings, vhost_lines_received, vhost_raw_lines,
                   vhost_stderr_lines, countVars, ioVars, finVars, cancelVars, timeVars>>

refresh_stats ==
    /\ stats' =
         [refreshed |-> TRUE,
          elapsed |-> format_elapsed(now - start_time),
          rate |-> Rate(rate_samples, now),
          pct |-> IF total_words > 0 THEN Percent(lines_received, total_words)
                  ELSE [num |-> 0, den |-> 1],
          eta |-> IF total_words > 0
                  THEN estimate_eta(now - start_time, lines_received, total_words)
                  ELSE Unknown,
          sent |-> lines_received,
          total |-> total_words,
          errors |-> errors,
          \* history: what was true when the refresh ran
          elapsed_seconds |-> now - start_time,
          in_window |-> WindowCount(arrival_log, now, 0)]
    /\ UNCHANGED <<runVars, classVars, cliVars, arrival_log, configVars, startVars,
                   taskVars, procVars, queue, accVars, countVars, ioVars, finVars,
                   cancelVars, timeVars>>

\* a second passes
Tick ==
    /\ now < MaxTime
    /\ now' = now + 1
    /\ UNCHANGED <<runVars, classVars, cliVars, statVars, configVars, startVars, taskVars,
                   procVars, queue, accVars, countVars, ioVars, finVars, cancelVars,
                   start_time>>

\* the lines of a batch: how many, and the line the child writes (no status code in it)
BatchSize == 50

BatchLine == <<"=", "=", ">", "\n">>

\* the most lines the batches add up to
MaxStatLines == 250

\* n times DequeAppend(d, x): the last RateSamplesMaxLen of d followed by n times x
DequeAppendTimes(d, x, n) ==
    LET all == d \o [i \in 1..n |-> x]
    IN  IF Len(all) > RateSamplesMaxLen
        THEN SubSeq(all, Len(all) - RateSamplesMaxLen + 1, Len(all))
        ELSE all

\* BatchSize output lines of the primary scanner are written, read, posted and handled
\* within the same second: BatchSize runs of TaskReadLine and on_scan_output_line
BatchOfLines ==
    /\ task["primary"] = "running" /\ gen["primary"] = "stdout"
    /\ proc["primary"] = "running"
    /\ queue = <<>>
    /\ lines_received + BatchSize <= MaxStatLines
    /\ emitted' = [emitted EXCEPT !["primary"] = @ \o [i \in 1..BatchSize |-> BatchLine]]
    /\ lines_received' = lines_received + BatchSize
    /\ raw_lines' = raw_lines \o [i \in 1..BatchSize |-> rstrip(BatchLine)]
    /\ rate_samples' = DequeAppendTimes(rate_samples, now, BatchSize)
    /\ arrival_log' = [arrival_log EXCEPT ![now] = @ + BatchSize]
    /\ append_workers' =
         append_workers
         \o [i \in 1..BatchSize |->
               [path |-> raw_path, line |-> rstrip(BatchLine), pc |-> "pending"]]
    /\ findings' = AppendFinding(findings, rstrip(BatchLine))
    /\ UNCHANGED <<runVars, classVars, cliVars, stats, configVars, startVars, taskVars,
                   proc, returncode, emitted_err, sent_signals, queue, errors, stderr_lines,
                   vhost_findings, vhost_lines_received, vhost_raw_lines,
                   vhost_stderr_lines, countVars, files, json_files, finVars, cancelVars,
                   timeVars>>

(***************************************************************************)
(* main.py: run_cli_scan, the non-interactive entry point: one scanner,    *)
(* read_stdout and read_stderr gathered, each append_raw_line awaited in   *)
(* read_stdout, the findings file written at the end.  No exception is     *)
(* caught: one raised in read_stdout leaves gather and run_cli_scan.       *)
(***************************************************************************)
tuiVars ==
    <<configVars, startVars, taskVars, procVars, queue, accVars, countVars, ioVars,
      finVars, cancelVars, timeVars, statVars>>

\* create_scanner, build_command and the spawn
CliStart ==
    /\ cli_pc = "new"
    /\ IF create_scanner_raises(selected_tool)
       THEN cli_pc' = "raised"
       ELSE cli_pc' \in {"running", "raised"}
    /\ UNCHANGED <<runVars, classVars, tuiVars, cli_eof, cli_emitted, cli_result, cli_file,
                   cli_json, cli_append_failures>>

\* one turn of the loop of read_stdout, the append succeeding
CliReadStdout ==
    /\ cli_pc = "running"
    /\ ~cli_eof["stdout"]
    /\ Len(cli_emitted["stdout"]) < MaxOut
    /\ \E raw_line \in OutLines :
          /\ cli_emitted' = [cli_emitted EXCEPT !["stdout"] = Append(@, raw_line)]
          /\ IF rstrip(raw_line) = <<>>
             THEN UNCHANGED <<cli_result, cli_file>>
             ELSE /\ cli_result' =
                       [cli_result EXCEPT
                          !.raw_lines = Append(@, rstrip(raw_line)),
                          !.findings = AppendFinding(@, rstrip(raw_line))]
                  /\ cli_file' = Append(cli_file, rstrip(raw_line))
    /\ UNCHANGED <<runVars, classVars, tuiVars, cli_pc, cli_eof, cli_json,
                   cli_append_failures>>

\* one turn of the loop of read_stdout in which `await append_raw_line` raises
CliAppendRaises ==
    /\ cli_pc = "running"
    /\ ~cli_eof["stdout"]
    /\ Len(cli_emitted["stdout"]) < MaxOut
    /\ \E raw_line \in OutLines :
          /\ rstrip(raw_line) # <<>>
          /\ cli_emitted' = [cli_emitted EXCEPT !["stdout"] = Append(@, raw_line)]
          /\ cli_result' = [cli_result EXCEPT !.raw_lines = Append(@, rstrip(raw_line))]
    /\ cli_append_failures' = cli_append_failures + 1
    /\ cli_pc' = "raised"
    /\ UNCHANGED <<runVars, classVars, tuiVars, cli_eof, cli_file, cli_json>>

\* one turn of the loop of read_stderr
CliReadStderr ==
    /\ cli_pc = "running"
    /\ ~cli_eof["stderr"]
    /\ Len(cli_emitted["stderr"]) < MaxErr
    /\ \E raw_line \in ErrLines :
          /\ cli_emitted' = [cli_emitted EXCEPT !["stderr"] = Append(@, raw_line)]
          /\ cli_result' =
               IF rstrip(raw_line) = <<>> THEN cli_result
               ELSE [cli_result EXCEPT !.stderr_lines = Append(@, rstrip(raw_line))]
    /\ UNCHANGED <<runVars, classVars, tuiVars, cli_pc, cli_eof, cli_file, cli_json,
                   cli_append_failures>>

\* a stream of the child ends
CliEof(stream) ==
    /\ cli_pc = "running"
    /\ ~cli_eof[stream]
    /\ cli_eof' = [cli_eof EXCEPT ![stream] = TRUE]
    /\ UNCHANGED <<runVars, classVars, tuiVars, cli_pc, cli_emitted, cli_result, cli_file,
                   cli_json, cli_append_failures>>

\* gather returned: process.wait(), write_json_results(json_path, result.findings)
CliFinish ==
    /\ cli_pc = "running"
    /\ cli_eof["stdout"] /\ cli_eof["stderr"]
    /\ cli_json' = Append(cli_json, cli_result.findings)
    /\ cli_pc' = "done"
    /\ UNCHANGED <<runVars, classVars, tuiVars, cli_eof, cli_emitted, cli_result, cli_file,
                   cli_append_failures>>

(***************************************************************************)
(* The classifier functions of output.py, called on one line.  The lines   *)
(* are the shapes the patterns of parse_status_code are written for, each  *)
(* with a three-digit number in it, two such shapes in one line, lines of  *)
(* the tools, and progress reports.                                        *)
(***************************************************************************)
\* three digits: below, at the ends of, within and above the range of a status code
CodeTexts ==
    { <<"0", "9", "9">>, <<"1", "0", "0">>, <<"2", "0", "0">>,
      <<"4", "0", "4">>, <<"5", "9", "9">>, <<"6", "0", "0">> }

\* the line shape pattern k of parse_status_code is written for, with c for the code
Shape(k, c) ==
    CASE k = 1 -> <<"C", "O", "D", "E", ":">> \o c
      [] k = 2 -> <<"C", "=">> \o c
      [] k = 3 -> <<"S", "t", "a", "t", "u", "s", ":", " ">> \o c
      [] k = 4 -> <<"[", "S", "t", "a", "t", "u", "s", ":", " ">> \o c \o <<"]">>
      [] k = 5 -> <<"(", "S", "t", "a", "t", "u", "s", ":", " ">> \o c \o <<")">>
      [] k = 6 -> c \o <<" ", "x">>
      [] k = 7 -> <<"x", " ">> \o c \o <<" ", "h", "t", "t", "p", ":", "/", "/", "x">>
      [] k = 8 -> <<"x", " ">> \o c \o <<" ", "1", "2", "w">>
      [] k = 9 -> <<"|", " ">> \o c \o <<" ", "|">>

\* a line of feroxbuster: status, lines, words, bytes, URL
FeroxLine ==
    <<"2", "0", "0", " ", " ", " ", " ", " ", " ", "4", "2", "l", " ", " ", " ", " ", " ",
      " ", "1", "2", "8", "w", " ", " ", " ", " ", " ", "1", "5", "2", "3", "c", " ", "h",
      "t", "t", "p", ":", "/", "/", "x", "/", "a", "d", "m", "i", "n">>

\* lines of the tools, and lines with a longer number where a code is looked for
OtherLines ==
    {
      <<>>,
      <<"h", "e", "l", "l", "o">>,
      <<"f", "o", "u", "n", "d", " ", "2", "0", "0", " ", "i", "t", "e", "m", "s">>,
      <<"C", "O", "D", "E", ":", "2", "0", "0", "0">>,
      <<"S", "t", "a", "t", "u", "s", ":", " ", "2", "0", "0", "0">>,
      <<"C", "=", "2", "0", "0", "1">>,
      FeroxLine,
      <<"=", "=", ">", " ", "D", "I", "R", "E", "C", "T", "O", "R", "Y", ":", " ", "h", "t",
         "t", "p", ":", "/", "/", "x", "/", "i", "m", "a", "g", "e", "s", "/">>,
      <<"+", " ", "h", "t", "t", "p", ":", "/", "/", "x", "/", "a", "d", "m", "i", "n", " ",
         "(", "C", "O", "D", "E", ":", "2", "0", "0", "|", "S", "I", "Z", "E", ":", "1", "1",
         "2", "9", "7", ")">>,
      <<"/", "a", " ", "(", "S", "t", "a", "t", "u", "s", ":", " ", "3", "0", "1", ")", " ",
         "[", "S", "i", "z", "e", ":", " ", "1", "2", "]">>,
      <<"|", " ", "2", "0", "0", " ", "|", " ", "1", "2", " ", "|">>,
      <<"2", "0", "0", " ", "1", "0", "B">>,
      <<"S", "i", "z", "e", ":", " ", "7", " ", "2", "0", "0", " ", "x">> }

\* progress reports: a label or none, a fraction or none, a percentage or none; a
\* fraction after "Progress: [" is closed by "]"
ProgressLines ==
    LET labels ==
            { <<"P", "r", "o", "g", "r", "e", "s", "s", ":", " ">>,
              <<"P", "r", "o", "g", "r", "e", "s", "s", ":", " ", "[">>,
              <<"S", "c", "a", "n", "n", "e", "d", " ">> }
        fractions ==
            { <<>>, <<"1", "2", "/", "5", "0">>, <<"6", "0", "/", "5", "0">>,
              <<"5", "/", "0">>, <<"5", "0", "/", "5", "0">> }
        percents ==
            { <<>>, <<" ", "4", "5", "%">>, <<" ", "0", "%">>, <<" ", "1", "0", "0", "%">>,
              <<" ", "1", "0", "1", "%">>, <<" ", "1", "0", "0", "0", "%">> }
    IN  {a \o f \o (IF a[Len(a)] = "[" /\ f # <<>> THEN <<"]">> ELSE <<>>) \o q :
            a \in labels, f \in fractions, q \in percents}
        \cup {f \o q : f \in fractions, q \in percents}

\* the lines the classifier is called on: one shape, two shapes, and the above
ClassifyLines ==
    {Shape(k, c) : k \in 1..NPatterns, c \in CodeTexts}
    \cup {Shape(j, c) \o <<" ">> \o Shape(k, d) :
            j \in 1..NPatterns, k \in 1..NPatterns,
            c \in {<<"0", "9", "9">>, <<"2", "0", "0">>},
            d \in {<<"0", "9", "9">>, <<"2", "0", "0">>, <<"4", "0", "4">>}}
    \cup OtherLines \cup ProgressLines

\* status = parse_status_code(line)
CallParseStatusCode ==
    /\ ~status_result.called
    /\ status_result' = [called |-> TRUE, value |-> parse_status_code(line_in),
                         rule |-> StatusRuleFrom(1, line_in)]
    /\ UNCHANGED <<runVars, tuiVars, cliVars, line_in, finding_result, progress_result>>

\* finding = parse_finding(line)
CallParseFinding ==
    /\ ~finding_result.called
    /\ finding_result' = [called |-> TRUE, value |-> parse_finding(line_in)]
    /\ UNCHANGED <<runVars, tuiVars, cliVars, line_in, status_result, progress_result>>

\* progress = parse_progress(line)
CallParseProgress ==
    /\ ~progress_result.called
    /\ progress_result' = [called |-> TRUE, value |-> parse_progress(line_in),
                           rule |-> ProgressFrom(1, line_in).rule]
    /\ UNCHANGED <<runVars, tuiVars, cliVars, line_in, status_result, finding_result>>

(***************************************************************************)
(* The specifications.                                                     *)
(* Spec is the whole program.  The append workers write only `files` and   *)
(* their own position, the cancel workers only `sent_signals` and their    *)
(* own position, and no other step reads either; total_words is only       *)
(* copied into the result.  SessionSpec is the coordinator with its        *)
(* scanner tasks under cancellation, with those worker steps left out and  *)
(* the wordlist fixed; IOSpec is the coordinator with its append workers.  *)
(* In both, and in RunnerSpec, the findings files are written without      *)
(* failure; FinaliseSpec adds the failures.                                *)
(***************************************************************************)
CoordinatorNext ==
    \/ StartScanCount
    \/ StartScanLaunch
    \/ \E s \in ScannerIds : ProcExit(s)
    \/ \E s \in ScannerIds : TaskStart(s)
    \/ \E s \in ScannerIds : TaskReadLine(s)
    \/ \E s \in ScannerIds : TaskDrainStderr(s)
    \/ \E s \in ScannerIds : TaskFinish(s)
    \/ on_scan_output_line
    \/ on_scan_complete
    \/ \E k \in DOMAIN finalise_workers : FinaliseWritePrimary(k)
    \/ \E k \in DOMAIN finalise_workers : FinaliseWriteVhost(k)
    \/ \E k \in DOMAIN finalise_workers : FinaliseResult(k)

CancelNext ==
    \/ action_cancel_scan
    \/ \E s \in ScannerIds : TaskCancelled(s)

AppendNext ==
    \/ \E w \in DOMAIN append_workers : AppendOpen(w)
    \/ \E w \in DOMAIN append_workers : AppendWrite(w)

CancelWorkerNext ==
    \/ \E c \in DOMAIN cancel_workers : CancelTerminate(c)
    \/ \E c \in DOMAIN cancel_workers : CancelKill(c)

FailureNext ==
    \E k \in DOMAIN finalise_workers : FinaliseWriteRaises(k)

StatsNext ==
    \/ refresh_stats
    \/ Tick
    \/ BatchOfLines

Next ==
    \/ CoordinatorNext \/ CancelNext \/ AppendNext \/ CancelWorkerNext \/ FailureNext
    \/ StatsNext

Spec == Init /\ [][Next]_vars

SessionInit == Init /\ wordlist_lines = MaxWords

SessionNext == CoordinatorNext \/ CancelNext

SessionSpec == SessionInit /\ [][SessionNext]_vars

IONext == CoordinatorNext \/ AppendNext

IOSpec == SessionInit /\ [][IONext]_vars

\* The sessions whose children write nothing to their output stream, with the
\* cancel workers: what cancel() does to a child does not depend on the lines read.
RunnerNext ==
    \/ StartScanCount
    \/ StartScanLaunch
    \/ \E s \in ScannerIds : ProcExit(s)
    \/ \E s \in ScannerIds : TaskStart(s)
    \/ \E s \in ScannerIds : TaskDrainStderr(s)
    \/ \E s \in ScannerIds : TaskFinish(s)
    \/ on_scan_output_line
    \/ on_scan_complete
    \/ \E k \in DOMAIN finalise_workers : FinaliseWritePrimary(k)
    \/ \E k \in DOMAIN finalise_workers : FinaliseWriteVhost(k)
    \/ \E k \in DOMAIN finalise_workers : FinaliseResult(k)
    \/ CancelNext
    \/ CancelWorkerNext

RunnerSpec == SessionInit /\ [][RunnerNext]_vars

\* The coordinator with findings files that may fail to be written.
FinaliseNext == CoordinatorNext \/ FailureNext

FinaliseSpec == SessionInit /\ [][FinaliseNext]_vars

\* The statistics of a directory scan that receives its lines in batches.
StatsInit == Init /\ scan_type = "directory" /\ selected_tool = "feroxbuster"

StatsSessionNext ==
    \/ StartScanCount
    \/ StartScanLaunch
    \/ \E s \in ScannerIds : TaskStart(s)
    \/ StatsNext

StatsSpec == StatsInit /\ [][StatsSessionNext]_vars

\* The session of one scanner with the clock and the timer of _refresh_stats.
TimerNext == CoordinatorNext \/ Tick \/ refresh_stats

TimerSpec == StatsInit /\ [][TimerNext]_vars

\* The non-interactive entry point; the screen and the command line never run together.
CliNext ==
    \/ CliStart
    \/ CliReadStdout
    \/ CliAppendRaises
    \/ CliReadStderr
    \/ \E stream \in {"stdout", "stderr"} : CliEof(stream)
    \/ CliFinish

CliSpec == SessionInit /\ [][CliNext]_vars

\* the classifier of output.py alone: one line, each function called on it once
ClassifyInit ==
    /\ ScreenInit
    /\ scan_type = "directory" /\ selected_tool = "feroxbuster"
    /\ wordlist_lines = MaxWords
    /\ line_in \in ClassifyLines
    /\ status_result = NotCalled
    /\ finding_result = NotCalled
    /\ progress_result = NotCalled
    /\ RunScanNotCalled
    /\ child_plan = <<>>

ClassifyNext == CallParseStatusCode \/ CallParseFinding \/ CallParseProgress

ClassifySpec == ClassifyInit /\ [][ClassifyNext]_vars

(***************************************************************************)
(* base.py: BaseScanner.run_scan on its own, with its child process and    *)
(* the two pipes between them.  The child does its writes in its own order *)
(* and exits after the last one; its exit closes both streams.  An output  *)
(* write is one line.  An error-stream write is one block of text of the   *)
(* size of the readers' limit (4 MiB, limit=4 * 1024 * 1024).  asyncio     *)
(* feeds what arrives on a pipe to the stream's reader without being asked;*)
(* StreamReader.feed_data pauses the reading of the pipe once the reader's *)
(* buffer is longer than twice the limit, and reading from the reader      *)
(* resumes it once the buffer is no longer than the limit.  While the      *)
(* reading is paused the pipe holds less than one block, so the child's    *)
(* next write to it does not return.  The output lines of a run are short  *)
(* against the limit and are read as they come.                            *)
(***************************************************************************)
\* limit, in blocks
ReaderLimit == 1

\* the most writes a child does
MaxWrites == 5

\* an output line, an output line of whitespace only, a block on the error stream
ChildPlans == UNION {[1..n -> {"out", "blank", "err"}] : n \in 0..MaxWrites}

\* base.py: ScanLine(raw, is_stderr); raw is given by the number of the child's write
ScanLine(raw, is_stderr) == [raw |-> raw, is_stderr |-> is_stderr]

\* StreamReader.feed_data(data)
feed_data(reader, data) ==
    [data |-> Append(reader.data, data),
     paused |-> reader.paused \/ Len(reader.data) + 1 > 2 * ReaderLimit]

\* StreamReader.read(limit): the first block leaves the buffer
read_block(reader) ==
    [data |-> Tail(reader.data),
     paused |-> reader.paused /\ Len(reader.data) - 1 > ReaderLimit]

\* asyncio.create_subprocess_exec: the child runs, or the spawn raises
RunScanSpawn ==
    /\ rs_pc = "new"
    /\ \/ rs_pc' = "stdout" /\ child_state' = "running"
       \/ rs_pc' = "raised" /\ UNCHANGED child_state
    /\ UNCHANGED <<tuiVars, cliVars, classVars, child_plan, child_written, stdout_buffer,
                   stderr_buffer, stderr_read, scan_lines>>

\* the child does its next write
ChildWrite ==
    /\ child_state = "running"
    /\ child_plan # <<>>
    /\ IF Head(child_plan) = "err"
       THEN /\ ~stderr_buffer.paused
            /\ stderr_buffer' = feed_data(stderr_buffer, child_written + 1)
            /\ UNCHANGED stdout_buffer
       ELSE /\ stdout_buffer' =
                 Append(stdout_buffer,
                        [raw |-> child_written + 1, blank |-> Head(child_plan) = "blank"])
            /\ UNCHANGED stderr_buffer
    /\ child_plan' = Tail(child_plan)
    /\ child_written' = child_written + 1
    /\ UNCHANGED <<tuiVars, cliVars, classVars, rs_pc, child_state, stderr_read,
                   scan_lines>>

\* the child has done its writes and exits
ChildExit ==
    /\ child_state = "running"
    /\ child_plan = <<>>
    /\ child_state' = "exited"
    /\ UNCHANGED <<tuiVars, cliVars, classVars, rs_pc, child_plan, child_written,
                   stdout_buffer, stderr_buffer, stderr_read, scan_lines>>

\* async for raw_line in self._process.stdout: a line is read and, unless
\* empty once stripped, yielded
RunScanReadLine ==
    /\ rs_pc = "stdout"
    /\ stdout_buffer # <<>>
    /\ scan_lines' = IF Head(stdout_buffer).blank THEN scan_lines
                     ELSE Append(scan_lines, ScanLine(Head(stdout_buffer).raw, FALSE))
    /\ stdout_buffer' = Tail(stdout_buffer)
    /\ UNCHANGED <<tuiVars, cliVars, classVars, rs_pc, child_state, child_plan,
                   child_written, stderr_buffer, stderr_read>>

\* the output stream is at its end: the loop is left for stderr.read()
RunScanStdoutEof ==
    /\ rs_pc = "stdout"
    /\ stdout_buffer = <<>>
    /\ child_state = "exited"
    /\ rs_pc' = "stderr"
    /\ UNCHANGED <<tuiVars, cliVars, classVars, child_state, child_plan, child_written,
                   stdout_buffer, stderr_buffer, stderr_read, scan_lines>>

\* self._process.stderr.read() reading one block at once, as it is yielded
\* by a runner that reads both streams side by side
RunScanReadStderr_side_by_side ==
    /\ rs_pc \in {"stdout", "stderr"}
    /\ stderr_buffer.data # <<>>
    /\ scan_lines' = Append(scan_lines, ScanLine(Head(stderr_buffer.data), TRUE))
    /\ stderr_buffer' = read_block(stderr_buffer)
    /\ UNCHANGED <<tuiVars, cliVars, classVars, rs_pc, child_state, child_plan,
                   child_written, stdout_buffer, stderr_read>>

\* await self._process.stderr.read(): one block is taken from the reader
RunScanReadStderr ==
    /\ rs_pc = "stderr"
    /\ stderr_buffer.data # <<>>
    /\ stderr_read' = Append(stderr_read, Head(stderr_buffer.data))
    /\ stderr_buffer' = read_block(stderr_buffer)
    /\ UNCHANGED <<tuiVars, cliVars, classVars, rs_pc, child_state, child_plan,
                   child_written, stdout_buffer, scan_lines>>

\* stderr.read() returns at the end of the stream: the lines of stderr_data are yielded
RunScanStderrEof ==
    /\ rs_pc = "stderr"
    /\ stderr_buffer.data = <<>>
    /\ child_state = "exited"
    /\ scan_lines' = scan_lines \o [i \in DOMAIN stderr_read |-> ScanLine(stderr_read[i], TRUE)]
    /\ rs_pc' = "wait"
    /\ UNCHANGED <<tuiVars, cliVars, classVars, child_state, child_plan, child_written,
                   stdout_buffer, stderr_buffer, stderr_read>>

\* await self._process.wait() returns and the generator ends
RunScanWait ==
    /\ rs_pc = "wait"
    /\ child_state = "exited"
    /\ rs_pc' = "end"
    /\ UNCHANGED <<tuiVars, cliVars, classVars, child_state, child_plan, child_written,
                   stdout_buffer, stderr_buffer, stderr_read, scan_lines>>

RunScanInit ==
    /\ ScreenInit
    /\ scan_type = "directory" /\ selected_tool = "feroxbuster"
    /\ wordlist_lines = MaxWords
    /\ line_in = <<>>
    /\ status_result = NotCalled
    /\ finding_result = NotCalled
    /\ progress_result = NotCalled
    /\ RunScanNotCalled
    /\ child_plan \in ChildPlans

RunScanNext ==
    \/ RunScanSpawn
    \/ ChildWrite
    \/ ChildExit
    \/ RunScanReadLine
    \/ RunScanStdoutEof
    \/ RunScanReadStderr
    \/ RunScanStderrEof
    \/ RunScanWait

RunScanSpec == RunScanInit /\ [][RunScanNext]_vars

(***************************************************************************)
(* Views of the state used by the properties below.                        *)
(***************************************************************************)
RawOf(s) == IF s = "vhost" THEN vhost_raw_lines ELSE raw_lines

FindingsOf(s) == IF s = "vhost" THEN vhost_findings ELSE findings

StderrOf(s) == IF s = "vhost" THEN vhost_stderr_lines ELSE stderr_lines

ToolOf(s) == IF s = "vhost" THEN selected_vhost_tool ELSE selected_tool

Other(s) == IF s = "vhost" THEN "primary" ELSE "vhost"

\* the texts of the line messages of scanner s still in the queue q, of one stream
RECURSIVE QueuedLines(_, _, _)
QueuedLines(q, s, is_stderr) ==
    IF q = <<>> THEN <<>>
    ELSE IF Head(q).type = "line" /\ Head(q).scanner_id = s /\ Head(q).is_stderr = is_stderr
         THEN <<Head(q).raw>> \o QueuedLines(Tail(q), s, is_stderr)
         ELSE QueuedLines(Tail(q), s, is_stderr)

\* the lines run_scan yields for what the child wrote: stripped, empty ones dropped
RECURSIVE Yielded(_)
Yielded(written) ==
    IF written = <<>> THEN <<>>
    ELSE IF rstrip(Head(written)) # <<>>
         THEN <<rstrip(Head(written))>> \o Yielded(Tail(written))
         ELSE Yielded(Tail(written))

\* the lines of a log for which a status code is extracted, in the log's order
RECURSIVE StatusLines(_)
StatusLines(log) ==
    IF log = <<>> THEN <<>>
    ELSE IF parse_status_code(Head(log)) # NoCode
         THEN <<Head(log)>> \o StatusLines(Tail(log))
         ELSE StatusLines(Tail(log))

\* the status codes of a list of findings, in order
StatusCodes(list) == [i \in DOMAIN list |-> list[i].status_code]

\* the status codes extracted from the lines of a log, in order
CodesOf(log) == [i \in DOMAIN log |-> parse_status_code(log[i])]

Elements(seq) == {seq[i] : i \in DOMAIN seq}

IsPrefix(a, b) == Len(a) <= Len(b) /\ a = SubSeq(b, 1, Len(a))

Launched == \E s \in ScannerIds : task[s] # "none"

AllStopped == \A s \in ScannerIds : task[s] \in {"none", "done"}

\* nothing of the session is left to run: the start worker and every task ended,
\* every message handled, every finalise worker ended
Quiet ==
    /\ start_pc \in {"gather", "failed"}
    /\ AllStopped
    /\ queue = <<>>
    /\ \A k \in DOMAIN finalise_workers : finalise_workers[k] = "done"

(***************************************************************************)
(* C1: in every reachable state completed_scanners <= total_scanners, and  *)
(* finalisation has been started if and only if the two are equal.         *)
(***************************************************************************)
C1_CompletedWithinTotal ==
    /\ completed_scanners <= total_scanners
    /\ (finalise_workers # <<>>) <=> (completed_scanners = total_scanners)

\* a combined session, cancelled, in which both scanners completed
C1_Witness ==
    /\ scan_type = "combined"
    /\ cancels > 0
    /\ completed_scanners = 2
    /\ finalise_workers # <<>>
    /\ Len(raw_lines) + Len(vhost_raw_lines) > 0

(***************************************************************************)
(* C2: _finalise is entered exactly once per session: never twice, and     *)
(* once when every launched scanner task has stopped and its messages were *)
(* handled.                                                                *)
(***************************************************************************)
C2_FinaliseExactlyOnce ==
    /\ Len(finalise_workers) <= 1
    /\ (Launched /\ AllStopped /\ queue = <<>>) => Len(finalise_workers) = 1

(***************************************************************************)
(* C3: every launched scanner task signals its completion exactly once:    *)
(* never twice, and once when it has stopped, however it stopped; a failed *)
(* spawn is recorded as an error-stream line of that scanner.              *)
(***************************************************************************)
C3_CompletionExactlyOnce ==
    \A s \in ScannerIds :
        /\ posted[s] <= 1
        /\ task[s] = "done" => posted[s] = 1
        /\ proc[s] = "spawn_failed" =>
             ScannerErrorText \in Elements(StderrOf(s) \o QueuedLines(queue, s, TRUE))

(***************************************************************************)
(* C4: the findings of a final ScanResult are as many as the output lines  *)
(* the scanner tasks posted for which parse_status_code returns a code,    *)
(* both scanners counted.                                                  *)
(***************************************************************************)
C4_FindingsCountStatusLines ==
    \A k \in DOMAIN results :
        Len(results[k].findings) =
            Len(StatusLines(Yielded(emitted["primary"])))
            + Len(StatusLines(Yielded(emitted["vhost"])))

\* a combined scan is finalised: the vhost scanner's line is a finding, the primary's
\* line has no status code
C4_Witness ==
    /\ Len(results) = 1
    /\ Len(raw_lines) = 1
    /\ Len(findings) = 0
    /\ Len(vhost_findings) = 1
    /\ Len(results[1].findings) = 1

(***************************************************************************)
(* C5: when cancel ran on live scanner tasks and nothing is left to run,   *)
(* the session has a final ScanResult, and it holds every finding and raw  *)
(* line that was accumulated when cancel ran.                              *)
(***************************************************************************)
C5_CancelReachesFinalResult ==
    (cancel_snapshot.taken /\ Quiet) =>
        /\ Len(results) = 1
        /\ Elements(cancel_snapshot.findings) \cup Elements(cancel_snapshot.vhost_findings)
             \subseteq Elements(results[1].findings)
        /\ Elements(cancel_snapshot.raw_lines) \cup Elements(cancel_snapshot.vhost_raw_lines)
             \subseteq Elements(results[1].raw_lines)

(***************************************************************************)
(* C6: in combined mode, when one scanner fails totally (its tool is not   *)
(* recognised, or its process cannot be spawned) and nothing is left to    *)
(* run, the session has a final ScanResult with the sibling's findings.    *)
(***************************************************************************)
FailedTotally(s) == create_scanner_raises(ToolOf(s)) \/ proc[s] = "spawn_failed"

C6_SiblingStillFinalised ==
    \A s \in ScannerIds :
        (/\ scan_type = "combined"
         /\ cancels = 0
         /\ FailedTotally(s) /\ ~FailedTotally(Other(s))
         /\ Quiet)
        => /\ Len(results) = 1
           /\ task[Other(s)] = "done"
           /\ Elements(FindingsOf(Other(s))) \subseteq Elements(results[1].findings)

(***************************************************************************)
(* C7: a scanner whose spawn failed has yielded no ScanLine; its failure   *)
(* is one error-stream line, in its error log once handled, with no raw    *)
(* line and no finding of that scanner; its completion was signalled.      *)
(***************************************************************************)
C7_SpawnFailureRecorded ==
    \A s \in ScannerIds :
        proc[s] = "spawn_failed" =>
            /\ emitted[s] = <<>>
            /\ StderrOf(s) \o QueuedLines(queue, s, TRUE) = <<ScannerErrorText>>
            /\ QueuedLines(queue, s, FALSE) = <<>>
            /\ RawOf(s) = <<>>
            /\ FindingsOf(s) = <<>>
            /\ posted[s] = 1

\* the spawn of the vhost scanner failed, its error line and completion were handled,
\* and the primary scanner found something
C7_Witness ==
    /\ proc["vhost"] = "spawn_failed"
    /\ vhost_stderr_lines = <<ScannerErrorText>>
    /\ completed_scanners = 2
    /\ Len(findings) > 0

(***************************************************************************)
(* C8: for each scanner, the raw-line log followed by its lines still in   *)
(* the queue is what the child wrote (as run_scan yields it), in order,    *)
(* and the Finding list is the findings of the log's lines, in order.      *)
(***************************************************************************)
C8_PerScannerOrder ==
    \A s \in ScannerIds :
        /\ RawOf(s) \o QueuedLines(queue, s, FALSE) = Yielded(emitted[s])
        /\ StatusCodes(FindingsOf(s)) = CodesOf(StatusLines(RawOf(s)))

\* a scanner logged two different lines, each of them a finding
C8_Witness ==
    \E s \in ScannerIds :
        /\ Len(FindingsOf(s)) = 2
        /\ FindingsOf(s)[1] # FindingsOf(s)[2]
        /\ RawOf(s)[1] # RawOf(s)[2]

(***************************************************************************)
(* C9: for each raw output path the append of a line is over before the    *)
(* append of the next line begins, and the file lists the lines in the     *)
(* order they arrived.                                                     *)
(***************************************************************************)
\* the lines handed to the append workers of a path, in arrival order
RECURSIVE LinesFor(_, _)
LinesFor(workers, path) ==
    IF workers = <<>> THEN <<>>
    ELSE IF Head(workers).path = path
         THEN <<Head(workers).line>> \o LinesFor(Tail(workers), path)
         ELSE LinesFor(Tail(workers), path)

C9_AppendsOneAfterTheOther ==
    /\ \A i, j \in DOMAIN append_workers :
         (/\ i < j
          /\ append_workers[i].path = append_workers[j].path
          /\ append_workers[j].pc # "pending")
         => append_workers[i].pc = "done"
    /\ \A path \in AllPaths : IsPrefix(files[path], LinesFor(append_workers, path))

(***************************************************************************)
(* C10: no two append workers have the same path open at the same time.    *)
(***************************************************************************)
C10_OneWriterPerPath ==
    \A i, j \in DOMAIN append_workers :
        (i # j /\ append_workers[i].path = append_workers[j].path)
        => ~(append_workers[i].pc = "open" /\ append_workers[j].pc = "open")

C12_NoFinaliseWhileChildRuns ==
    (cancels > 0 /\ (finalise_workers # <<>> \/ results # <<>>)) =>
        \A s \in ScannerIds : ~Alive(s)

(***************************************************************************)
(* C13: the handling of an error-stream line of scanner s appends the line *)
(* to the error log of s and changes nothing else: not the raw-line log,   *)
(* the Finding list, the received-line count of s, the rate samples, the   *)
(* append workers or the files, and nothing of the other scanner.          *)
(***************************************************************************)
\* the step that takes the message at the head of the queue, an error-stream line of s
HandlesErrorLine(s) ==
    /\ queue # <<>>
    /\ Head(queue).type = "line"
    /\ Head(queue).is_stderr
    /\ Head(queue).scanner_id = s
    /\ queue' = Tail(queue)

C13_ErrorLineFrame ==
    [][\A s \in ScannerIds :
          HandlesErrorLine(s) =>
              /\ StderrOf(s)' = Append(StderrOf(s), Head(queue).raw)
              /\ UNCHANGED <<raw_lines, vhost_raw_lines, findings, vhost_findings,
                             lines_received, vhost_lines_received, rate_samples,
                             append_workers, files, json_files, errors, countVars>>
              /\ StderrOf(Other(s))' = StderrOf(Other(s))
      ]_vars

\* an error-stream line of the vhost scanner was handled after an output line of the
\* primary scanner
C13_Witness ==
    /\ vhost_stderr_lines = << <<"e", "!">> >>
    /\ stderr_lines = <<>>
    /\ Len(raw_lines) = 1
    /\ Len(append_workers) = 1
    /\ queue = <<>>

(***************************************************************************)
(* C14: the handling of an output line of scanner s appends the line once  *)
(* to the raw-line log of s and starts one append worker for the line on   *)
(* the raw output path of s, finding or not; it appends one Finding to the *)
(* Finding list of s if and only if a status code is extracted, and leaves *)
(* the log and the list of the other scanner alone.                        *)
(***************************************************************************)
RawPathOf(s) == IF s = "vhost" THEN vhost_raw_path ELSE raw_path

\* the step that takes the message at the head of the queue, an output line of s
HandlesOutputLine(s) ==
    /\ queue # <<>>
    /\ Head(queue).type = "line"
    /\ ~Head(queue).is_stderr
    /\ Head(queue).scanner_id = s
    /\ queue' = Tail(queue)

C14_OutputLineEffect ==
    [][\A s \in ScannerIds :
          HandlesOutputLine(s) =>
              /\ RawOf(s)' = Append(RawOf(s), Head(queue).raw)
              /\ RawPathOf(s) # NoPath
              /\ append_workers' =
                   Append(append_workers,
                          [path |-> RawPathOf(s), line |-> Head(queue).raw, pc |-> "pending"])
              /\ FindingsOf(s)' =
                   IF parse_status_code(Head(queue).raw) # NoCode
                   THEN Append(FindingsOf(s), parse_finding(Head(queue).raw))
                   ELSE FindingsOf(s)
              /\ Len(FindingsOf(s)') = Len(FindingsOf(s)) + 1
                   <=> parse_status_code(Head(queue).raw) # NoCode
              /\ RawOf(Other(s))' = RawOf(Other(s))
              /\ FindingsOf(Other(s))' = FindingsOf(Other(s))
      ]_vars

\* a line of the vhost scanner without a status code and a finding of the primary
\* scanner were handled: two raw lines, two append workers, one finding
C14_Witness ==
    /\ Len(vhost_raw_lines) = 1
    /\ vhost_findings = <<>>
    /\ Len(raw_lines) = 1
    /\ Len(findings) = 1
    /\ Len(append_workers) = 2
    /\ \E w \in DOMAIN append_workers : append_workers[w].path = vhost_raw_path

(***************************************************************************)
(* C15: the ScanResult of a combined session merges both scanners: its     *)
(* findings, its raw lines and its error lines each hold the primary       *)
(* scanner's and the vhost scanner's sequence, each in its own order, and  *)
(* nothing else.                                                           *)
(***************************************************************************)
\* a is a subsequence of b: the elements of a, in order, among those of b
RECURSIVE IsSubsequence(_, _)
IsSubsequence(a, b) ==
    IF a = <<>> THEN TRUE
    ELSE IF b = <<>> THEN FALSE
    ELSE IF Head(a) = Head(b) THEN IsSubsequence(Tail(a), Tail(b))
    ELSE IsSubsequence(a, Tail(b))

\* merged holds the sequences a and b, each in its own order, and nothing else
Merges(merged, a, b) ==
    /\ Len(merged) = Len(a) + Len(b)
    /\ IsSubsequence(a, merged)
    /\ IsSubsequence(b, merged)

C15_ResultMergesBothScanners ==
    \A k \in DOMAIN results :
        results[k].mode = "combined" =>
            /\ Merges(results[k].findings, findings, vhost_findings)
            /\ Merges(results[k].raw_lines, raw_lines, vhost_raw_lines)
            /\ Merges(results[k].stderr_lines, stderr_lines, vhost_stderr_lines)

(***************************************************************************)
(* C16: when a result is handed off, each scanner's Finding list has been  *)
(* written to its own findings file.  A failed findings write ends the     *)
(* _finalise worker with the error: it hands off no result, and a findings *)
(* file is left unwritten by a finished worker only if a write raised.     *)
(***************************************************************************)
C16_FindingsFilesWritten ==
    /\ results # <<>> =>
         /\ json_path # NoPath
         /\ json_files[json_path] = <<findings>>
         /\ scan_type = "combined" =>
              /\ vhost_json_path # NoPath
              /\ vhost_json_path # json_path
              /\ json_files[vhost_json_path] = <<vhost_findings>>
    /\ \A k \in DOMAIN finalise_workers :
         /\ finalise_workers[k] = "raised" => results = <<>>
         /\ (finalise_workers[k] \in {"vhost_written", "done"} /\ scan_type = "combined") =>
              json_files[vhost_json_path] # <<>>
    /\ Len(results) <= Len(finalise_workers)

\* a combined session: the primary findings file was written with a finding, the
\* write of the vhost file raised, the worker ended and no result was handed off
C16_Witness ==
    /\ scan_type = "combined"
    /\ finalise_workers = <<"raised">>
    /\ Len(findings) = 1
    /\ json_files[json_path] = <<findings>>
    /\ Len(vhost_findings) = 1
    /\ json_files[vhost_json_path] = <<>>
    /\ results = <<>>

(***************************************************************************)
(* C17: a raw-append failure for one line does not abort the scan: the     *)
(* run goes on or has finished, the findings are those of the lines        *)
(* received, and a finished run has written its findings file.             *)
(***************************************************************************)
C17_AppendFailureDoesNotAbort ==
    cli_append_failures > 0 =>
        /\ cli_pc \in {"running", "done"}
        /\ StatusCodes(cli_result.findings) = CodesOf(StatusLines(cli_result.raw_lines))
        /\ cli_pc = "done" => cli_json = <<cli_result.findings>>

(***************************************************************************)
(* C18: at every statistics refresh the rate is the number of output lines *)
(* of the primary scanner handled within the trailing RateWindow seconds,  *)
(* divided by RateWindow, whatever the arrival rate.                       *)
(***************************************************************************)
C18_RateIsWindowCount ==
    stats.refreshed => stats.rate = [num |-> stats.in_window, den |-> RateWindow]

(***************************************************************************)
(* C19: at every statistics refresh the completion percentage is           *)
(* received/total as a percentage, at most 100, when total > 0, and is     *)
(* unknown, not a number, when total is 0.                                 *)
(***************************************************************************)
C19_PercentOrUnknown ==
    stats.refreshed =>
        IF stats.total > 0
        THEN /\ stats.pct # Unknown
             /\ stats.pct.num <= 100 * stats.pct.den
             /\ stats.sent <= stats.total =>
                  stats.pct.num * stats.total = 100 * stats.sent * stats.pct.den
             /\ stats.sent > stats.total => stats.pct.num = 100 * stats.pct.den
        ELSE stats.pct = Unknown

(***************************************************************************)
(* C20: at every statistics refresh the ETA is (total - received) /        *)
(* (received / elapsed), in whole seconds, whenever received > 0 and       *)
(* elapsed > 0, and is unknown otherwise.                                  *)
(***************************************************************************)
\* the seconds a displayed duration stands for
SecondsOf(text) ==
    IF "mins" \in DOMAIN text THEN text.mins * 60 + text.secs ELSE text.secs

C20_EtaFormula ==
    stats.refreshed =>
        IF stats.sent > 0 /\ stats.elapsed_seconds > 0
        THEN /\ stats.eta # Unknown
             /\ SecondsOf(stats.eta)
                  = Trunc((stats.total - stats.sent) * stats.elapsed_seconds, stats.sent)
        ELSE stats.eta = Unknown

(***************************************************************************)
(* C21: parse_status_code returns absent or a number in 100..599; for a    *)
(* code in 100..599 in the line shape of any of its patterns it returns    *)
(* that code; for a line with no three-digit token (a number of exactly    *)
(* three digits) in 100..599 it returns absent; so every Finding of        *)
(* parse_finding has its status_code in 100..599.                          *)
(***************************************************************************)
InRange(code) == 100 <= code /\ code <= 599

\* a number of exactly three digits, in range, stands in the line
HasStatusToken(l) ==
    \E i \in 1..Len(l) :
        /\ Digits3At(l, i) /\ ~DigitAt(l, i - 1) /\ ~DigitAt(l, i + 3)
        /\ InRange(IntOf(l, i, i + 3))

C21_StatusInRangeOrAbsent ==
    /\ status_result.called =>
         /\ status_result.value = NoCode \/ InRange(status_result.value)
         /\ \A k \in 1..NPatterns, c \in CodeTexts :
              InRange(IntOf(c, 1, 4)) /\ line_in = Shape(k, c)
                  => status_result.value = IntOf(c, 1, 4)
         /\ ~HasStatusToken(line_in) => status_result.value = NoCode
    /\ finding_result.called /\ finding_result.value # NoFinding
         => InRange(finding_result.value.status_code)

(***************************************************************************)
(* C22: for the feroxbuster line with status 200, 42l, 128w, 1523c and the *)
(* URL http://x/admin, parse_finding gives status 200, that URL and the    *)
(* size 1523, the byte count written with the suffix c.                    *)
(***************************************************************************)
C22_FeroxLineClassified ==
    finding_result.called /\ line_in = FeroxLine =>
        finding_result.value =
            [status_code |-> 200,
             url |-> <<"h", "t", "t", "p", ":", "/", "/", "x", "/", "a", "d", "m", "i", "n">>,
             size |-> 1523]

(***************************************************************************)
(* C23: in the sequence one run of run_scan yields, the output-stream      *)
(* ScanLines come first, in the order the child wrote them, and the        *)
(* error-stream ScanLines come only after the output stream has closed: no *)
(* error-stream ScanLine precedes an output-stream ScanLine.               *)
(***************************************************************************)
C23_OutputBeforeErrors ==
    /\ \A i, j \in DOMAIN scan_lines :
         i < j =>
            /\ ~(scan_lines[i].is_stderr /\ ~scan_lines[j].is_stderr)
            /\ ~scan_lines[i].is_stderr /\ ~scan_lines[j].is_stderr
                 => scan_lines[i].raw < scan_lines[j].raw
    /\ (\E i \in DOMAIN scan_lines : scan_lines[i].is_stderr)
         => rs_pc \in {"wait", "end"} /\ stdout_buffer = <<>> /\ child_state = "exited"

\* the run has ended; the child wrote on its error stream before it wrote an
\* output line, and both were yielded
C23_Witness ==
    /\ rs_pc = "end"
    /\ \E i, j \in DOMAIN scan_lines :
         /\ scan_lines[i].is_stderr /\ ~scan_lines[j].is_stderr
         /\ scan_lines[i].raw < scan_lines[j].raw

(***************************************************************************)
(* C24: run_scan ends whenever its child is one that does a finite number  *)
(* of writes and exits, whatever the order and the volume of its writes on *)
(* the two streams: until the generator has ended (or the spawn raised) a  *)
(* step of the runner or of the child is possible, so the child is never   *)
(* left blocked on a full error pipe.                                      *)
(***************************************************************************)
C24_RunScanTerminates == rs_pc \notin {"end", "raised"} => ENABLED RunScanNext

(***************************************************************************)
(* C25: parse_status_code tries its patterns in the order of the table and *)
(* the first pattern that matches the line decides: the result is that     *)
(* pattern's number if it is in 100..599 and absent otherwise, and no      *)
(* later pattern is looked at once an earlier one has matched.             *)
(***************************************************************************)
C25_FirstMatchingRuleWins ==
    status_result.called =>
        LET matching == {p \in 1..NPatterns : StatusSearch(p, line_in) # NoCode}
        IN  IF matching = {} THEN status_result.value = NoCode
            ELSE /\ status_result.rule \in {0, MinOf(matching)}
                 /\ status_result.value =
                        IF InRange(StatusSearch(MinOf(matching), line_in))
                        THEN StatusSearch(MinOf(matching), line_in)
                        ELSE NoCode

(***************************************************************************)
(* C26: parse_progress returns (done, total) only with total > 0 and       *)
(* done <= total; it takes the bare percentage only if none of the "x/y"   *)
(* patterns matches the line; a percentage p is accepted only for          *)
(* 0 < p <= 100 and returned as (p, 100); otherwise the result is absent.  *)
(***************************************************************************)
C26_ProgressFallback ==
    progress_result.called =>
        LET fraction == \E p \in 1..NProgressPatterns : ProgressSearch(p, line_in) # <<>>
            pct == PercentSearch(line_in)
        IN  /\ progress_result.value # NoProgress =>
                 progress_result.value[2] > 0
                 /\ progress_result.value[1] <= progress_result.value[2]
            /\ progress_result.rule = NProgressPatterns + 1 =>
                 /\ ~fraction
                 /\ 0 < pct /\ pct <= 100
                 /\ progress_result.value = <<pct, 100>>
            /\ ~fraction /\ ~(0 < pct /\ pct <= 100) => progress_result.value = NoProgress

(***************************************************************************)
(* C27: the periodic refresh of the statistics only reads the accumulators:*)
(* a run of _refresh_stats, wherever it falls among the line and completion*)
(* events of a session, leaves the findings, the raw-line logs, the error  *)
(* logs, the received-line counts, the rate samples and the completion     *)
(* counters as they were.                                                  *)
(***************************************************************************)
C27_RefreshOnlyReads ==
    [][stats' # stats =>
          UNCHANGED <<findings, vhost_findings, raw_lines, vhost_raw_lines, stderr_lines,
                      vhost_stderr_lines, lines_received, vhost_lines_received, errors,
                      rate_samples, completed_scanners, total_scanners>>]_vars

\* a refresh ran after the scanner completed, with a finding and an error line
\* accumulated and a rate sample older than the window
C27_Witness ==
    /\ stats.refreshed
    /\ stats.sent > 0 /\ stats.sent = lines_received
    /\ findings # <<>> /\ stderr_lines # <<>>
    /\ completed_scanners = 1
    /\ rate_samples # <<>> /\ stats.rate.num < Len(rate_samples)

(***************************************************************************)
(* C28: the error count, as a refresh of the statistics shows it and as    *)
(* the final ScanResult stores it, is the number of error-stream lines     *)
(* recorded in the session's error logs.                                   *)
(***************************************************************************)
C28_ErrorCountIsErrorLines ==
    [][/\ stats' # stats =>
            stats'.errors = Len(stderr_lines') + Len(vhost_stderr_lines')
       /\ \A i \in DOMAIN results' :
            results'[i].errors = Len(results'[i].stderr_lines)]_vars

(***************************************************************************)
(* C29: the ETA computed at a refresh of the statistics is never negative, *)
(* whatever the number of lines received and the number of words of the    *)
(* wordlist (the lines received count every non-empty output line of the   *)
(* primary scanner and are not bounded by the wordlist).                   *)
(***************************************************************************)
C29_EtaNeverNegative ==
    stats.refreshed /\ stats.eta # Unknown =>
        eta_seconds(stats.elapsed_seconds, stats.sent, stats.total).num >= 0

(***************************************************************************)
(* C30: running the cancel action again changes nothing for the session:   *)
(* no scanner posts a second ScanComplete, completed_scanners does not     *)
(* pass the number of scanners, _finalise is not started a second time,    *)
(* no finding or raw line is removed; the cancel action itself posts       *)
(* nothing and touches no counter, accumulator or result, and once a       *)
(* cancel has been requested of the live tasks a further one requests      *)
(* nothing new.                                                            *)
(***************************************************************************)
C30_CancelIdempotent ==
    [][/\ \A s \in ScannerIds : posted'[s] <= 1
       /\ completed_scanners' <= total_scanners'
       /\ Len(finalise_workers') <= 1
       /\ IsPrefix(findings, findings') /\ IsPrefix(raw_lines, raw_lines')
       /\ IsPrefix(vhost_findings, vhost_findings')
       /\ IsPrefix(vhost_raw_lines, vhost_raw_lines')
       /\ cancels' > cancels =>
            UNCHANGED <<queue, posted, task, countVars, finVars, accVars>>
       /\ cancels' > cancels /\ cancel_snapshot.taken => must_cancel' = must_cancel]_vars

\* the cancel action ran twice on the running scanner of a directory scan that had
\* a finding, and the session was finalised with it
C30_Witness ==
    /\ scan_type = "directory"
    /\ cancels = 2 /\ Len(cancel_workers) = 2
    /\ cancel_snapshot.taken /\ cancel_snapshot.findings # <<>>
    /\ posted["primary"] = 1
    /\ Len(results) = 1 /\ results[1].findings = cancel_snapshot.findings

====
